---------------------------- MODULE Spec2Model ----------------------------
(***************************************************************************)
(* A model of the page-based storage engine of toydb                       *)
(* (src/src/storage/relational): the disk manager, the raw page helpers,   *)
(* the slotted table page, the clock replacer and the buffer pool manager, *)
(* and of the Raft state machine driver (src/src/raft/state.rs).           *)
(*                                                                         *)
(* Representation.                                                         *)
(*  - A byte buffer (a page's data, a tuple's Vec<u8>, the database file)  *)
(*    is a record [len, nz]: its length and the function from the offsets  *)
(*    of its non-zero bytes to their values.  Every other byte is 0.  The  *)
(*    page size is the program's own (4095) and a zero page costs nothing. *)
(*  - A u32 is the integer with the same 32-bit pattern read as two's      *)
(*    complement: the checker's integers are 32 bits wide, so a u32 with   *)
(*    bit 31 set (a tombstoned tuple size) appears as a negative number.   *)
(*    ULt is the unsigned order on these.                                  *)
(*  - A Rust panic ends the program: `halted` becomes TRUE and no further  *)
(*    operation runs.                                                      *)
(***************************************************************************)
EXTENDS Integers, Sequences, FiniteSets, TLC

VARIABLES
    tp,       \* the table page under test (a TablePage value)
    ret,      \* the last operation: its name, its arguments and its result
    halted,   \* TRUE once an operation has panicked
    db,       \* the bytes of the database file toydb.db
    bpm,      \* "closed", or "open" while a BufferPoolManager exists
    header_page,  \* BufferPoolManager.header_page: the data of its Page
    capacity,     \* ClockReplacer.capacity
    clock_hand,   \* ClockReplacer.clock_hand
    pages,    \* ClockReplacer.pages: a sequence of handles (indices of heap)
    heap,     \* the table pages behind the Arc<Mutex<TablePage>> handles
    held,     \* the handles the caller has been given
    pc,       \* "idle", or "writeback" inside push_cache, between
              \* ClockReplacer::push and the write of the evicted page
    evict,    \* the eviction made by the operation in progress or just
              \* completed: <<>> or <<[victim, slot, op, page_id]>>
    driver,   \* the raft Driver: applied_index, notify, queries
    state     \* the state machine the Driver drives

poolvars == <<bpm, header_page, capacity, clock_hand, pages, heap, held, pc, evict>>

raftvars == <<driver, state>>

vars == <<tp, ret, halted, db, poolvars, raftvars>>

---------------------------------------------------------------------------
(* Program constants *)

PAGE_SIZE == 4095
SIZE_TABLE_PAGE_HEADER == 25
SIZE_TUPLE == 8
OFFSET_DELETED == 4
OFFSET_LSN == 5
OFFSET_PREV_PAGE_ID == 9
OFFSET_NEXT_PAGE_ID == 13
OFFSET_FREE_SPACE == 17
OFFSET_TUPLE_COUNT == 21
OFFSET_TUPLE_OFFSET == 25
OFFSET_TUPLE_SIZE == 29

\* 1 << 31 as a 32-bit pattern
DELETE_MASK == (-2147483647) - 1

---------------------------------------------------------------------------
(* Bounds of the model *)

\* insert_tuple is not offered once the page has this many slots
MaxTuples == 2
\* slot numbers the callers pass range over 0..MaxSlotArg
MaxSlotArg == 2
\* page ids the callers pass range over 0..MaxPageId (and WrapPageId)
MaxPageId == 2
\* the database file is not grown past this many pages
MaxFilePages == 4
\* BufferPoolManager::open is called with a capacity in 0..MaxCapacity
MaxCapacity == 2
\* a pool allocates at most this many table pages before it is dropped
MaxObjs == 2
\* SpecEvict: the pool over the longer file allocates this many more
MaxEvictObjs == 1
\* insert_tuple through a handle is not offered once the page has this many slots
MaxPoolTuples == 1
\* insert_record is not offered once the header page has this many records
MaxRecords == 2
\* a replacer on its own is made with a capacity in 1..MaxReplacerCapacity
MaxReplacerCapacity == 2
\* and is pushed at most this many pages
MaxReplacerObjs == 3

\* SpecRaw: the longest caller buffer of read_data / write_data
MaxBufLen == 3

\* SpecDriver: the last log index, the last term, the quorum of a query
MaxIndex == 2

MaxTerm == 2

MaxQuorum == 2

\* SpecSlots: a slot is cleared only while the tuples take at most this many
\* bytes of the page
MaxFreedBytes == 4

---------------------------------------------------------------------------
(* Byte buffers *)

NoBytes == [i \in {} |-> 0]

Zeros(n) == [len |-> n, nz |-> NoBytes]

\* the buffer holding the bytes of the sequence s
Bytes(s) ==
    [len |-> Len(s),
     nz  |-> [i \in {k - 1 : k \in {j \in 1..Len(s) : s[j] # 0}} |-> s[i + 1]]]

At(b, i) == IF i \in DOMAIN b.nz THEN b.nz[i] ELSE 0

\* b[s..e]
Slice(b, s, e) ==
    [len |-> e - s,
     nz  |-> [i \in {k - s : k \in {j \in DOMAIN b.nz : j >= s /\ j < e}}
                  |-> b.nz[i + s]]]

\* b with b[off .. off + src.len] replaced by src; the buffer grows when the
\* range ends past its end (a write past the end of a file)
Overwrite(b, off, src) ==
    [len |-> IF off + src.len > b.len THEN off + src.len ELSE b.len,
     nz  |-> [i \in {k \in DOMAIN b.nz : k < off \/ k >= off + src.len}
                      \cup {k + off : k \in DOMAIN src.nz}
                  |-> IF i >= off /\ i < off + src.len
                      THEN src.nz[i - off] ELSE b.nz[i]]]

Min(a, b) == IF a < b THEN a ELSE b

---------------------------------------------------------------------------
(* u32 *)

\* unsigned a < b on 32-bit patterns
ULt(a, b) == IF (a < 0) = (b < 0) THEN a < b ELSE b < 0

\* the pattern has bit 31 set: as a usize it is at least 2^31
HighBit(a) == a < 0

to_le_bytes(v) ==
    LET w == IF v < 0 THEN v - DELETE_MASK ELSE v
    IN  Bytes(<< w % 256,
                 (w \div 256) % 256,
                 (w \div 65536) % 256,
                 (w \div 16777216) + (IF v < 0 THEN 128 ELSE 0) >>)

from_le_bytes(b) ==
    LET low == At(b, 0) + 256 * At(b, 1) + 65536 * At(b, 2)
                 + 16777216 * (At(b, 3) % 128)
    IN  IF At(b, 3) >= 128 THEN low + DELETE_MASK ELSE low

---------------------------------------------------------------------------
(* Page: the raw helpers (page.rs, impl Page) *)

\* Page::read_data into a caller buffer of n bytes.  copy_from_slice panics
\* when the clamped range and the caller's buffer differ in length.
read_data(d, n, offset, len) ==
    IF offset > d.len
    THEN [res |-> "err", data |-> Zeros(n), n |-> 0]
    ELSE LET end == Min(Min(offset + len, offset + n), d.len)
         IN  IF end - offset # n
             THEN [res |-> "panic", data |-> Zeros(n), n |-> 0]
             ELSE [res |-> "ok", data |-> Slice(d, offset, end), n |-> end - offset]

\* Page::write_data: the page data after the write, and the count written
write_data(d, src, offset, len) ==
    IF offset > d.len
    THEN [res |-> "err", data |-> d, n |-> 0]
    ELSE LET end == Min(Min(offset + len, offset + src.len), d.len)
         IN  [res |-> "ok",
              data |-> Overwrite(d, offset, Slice(src, 0, end - offset)),
              n |-> end - offset]

\* <[u8]>::copy_within(s..e, dest); dest is a u32 pattern cast to usize
copy_within(d, s, e, dest) ==
    IF s > e \/ e > d.len \/ HighBit(dest) \/ dest > d.len - (e - s)
    THEN [res |-> "panic", data |-> d]
    ELSE [res |-> "ok", data |-> Overwrite(d, dest, Slice(d, s, e))]

\* a u32 field of the page, read and written through read_data / write_data
ReadU32(d, offset) == from_le_bytes(read_data(d, 4, offset, 4).data)

WriteU32(d, offset, v) == write_data(d, to_le_bytes(v), offset, 4).data

---------------------------------------------------------------------------
(* ClockStatus (clock_replacer.rs) *)

ClockStatus_empty ==
    [used |-> FALSE, edited |-> FALSE, deleted |-> FALSE, removed |-> FALSE]

\* ClockStatus::used / edited / un_used applied to a table page
Used(p) == [p EXCEPT !.status.used = TRUE]

Edited(p) == [p EXCEPT !.status.edited = TRUE]

UnUsed(p) == [p EXCEPT !.status.used = FALSE]

---------------------------------------------------------------------------
(* TablePage: field accessors (page.rs) *)

is_deleted(tuple_size) == HighBit(tuple_size) \/ tuple_size = 0

set_deleted_flag(tuple_size) ==
    IF HighBit(tuple_size) THEN tuple_size ELSE tuple_size + DELETE_MASK

unset_deleted_flag(tuple_size) ==
    IF HighBit(tuple_size) THEN tuple_size - DELETE_MASK ELSE tuple_size

get_free_space_pointer(p) == ReadU32(p.data, OFFSET_FREE_SPACE)

set_free_space_pointer(p, v) ==
    [p EXCEPT !.data = WriteU32(p.data, OFFSET_FREE_SPACE, v)]

get_tuple_count(p) == ReadU32(p.data, OFFSET_TUPLE_COUNT)

set_tuple_count(p, v) ==
    [p EXCEPT !.data = WriteU32(p.data, OFFSET_TUPLE_COUNT, v)]

get_tuple_offset_at_slot(p, slot_num) ==
    ReadU32(p.data, OFFSET_TUPLE_OFFSET + SIZE_TUPLE * slot_num)

set_tuple_offset_at_slot(p, slot_num, v) ==
    [p EXCEPT !.data =
        WriteU32(p.data, OFFSET_TUPLE_OFFSET + SIZE_TUPLE * slot_num, v)]

get_tuple_size(p, slot_num) ==
    ReadU32(p.data, OFFSET_TUPLE_SIZE + SIZE_TUPLE * slot_num)

set_tuple_size(p, slot_num, v) ==
    [p EXCEPT !.data =
        WriteU32(p.data, OFFSET_TUPLE_SIZE + SIZE_TUPLE * slot_num, v)]

\* sets edited before the write
set_prev_page_id(p, prev_page_id) ==
    LET q == Edited(p)
    IN  [q EXCEPT !.data = WriteU32(q.data, OFFSET_PREV_PAGE_ID, prev_page_id)]

get_prev_page_id(p) == ReadU32(p.data, OFFSET_PREV_PAGE_ID)

get_table_page_id(p) == ReadU32(p.data, 0)

\* a variant that does not count the page header
get_free_space_remaining_NoHeader(p) ==
    get_free_space_pointer(p) - SIZE_TUPLE * get_tuple_count(p)

get_free_space_remaining(p) ==
    get_free_space_pointer(p) - SIZE_TABLE_PAGE_HEADER
        - SIZE_TUPLE * get_tuple_count(p)

\* the lowest slot whose size field is 0, or -1 for None
get_free_slot_array(p) ==
    LET free == {i \in 0..(get_tuple_count(p) - 1) : get_tuple_size(p, i) = 0}
    IN  IF free = {} THEN -1
        ELSE CHOOSE i \in free : \A j \in free : i <= j

---------------------------------------------------------------------------
(* Tuple and RID (tuple.rs).  An Option<RID> is <<>> or <<page_id, slot>>. *)

Tuple_from_data(data) == [data |-> data, rid |-> <<>>, allocated |-> FALSE]

\* Tuple::set_rid keeps a RID the tuple already has
set_rid(t, rid) == IF t.rid # <<>> THEN t ELSE [t EXCEPT !.rid = rid]

allocated(t) == [t EXCEPT !.allocated = TRUE]

---------------------------------------------------------------------------
(* TablePage: operations (page.rs).  Each yields the page after the call   *)
(* and `res`: "true" / "false" / "ok" / "some" / "none" for Ok values,     *)
(* "err" for Err(Error::Value), "panic" for a panic.                       *)

\* Some(x) / None of an Option<u32> argument
None == -1

TablePage_new(page_id, prev_page_id, data) ==
    IF page_id = 0
    THEN [res |-> "err"]
    ELSE LET p0 == Used([page_id |-> page_id, data |-> data,
                         status |-> ClockStatus_empty])
             p1 == [p0 EXCEPT !.data = write_data(p0.data, to_le_bytes(page_id), 0, 4).data]
             p2 == set_tuple_count(p1, 0)
             p3 == IF prev_page_id # None
                   THEN set_prev_page_id(p2, prev_page_id) ELSE p2
         IN  [res |-> "ok", page |-> set_free_space_pointer(p3, PAGE_SIZE)]

\* a variant that ignores the free space pointer
InsertOffset_AtPageEnd(free_space_pointer, length) == PAGE_SIZE - length

\* where insert_tuple puts the bytes of a tuple of `length` bytes
InsertOffset(free_space_pointer, length) == free_space_pointer - length

insert_tuple(p, t) ==
    IF t.data.len = 0
    THEN [res |-> "err", page |-> p, tuple |-> t, slot |-> None]
    ELSE IF get_free_space_remaining(p) < t.data.len + SIZE_TUPLE
    THEN [res |-> "false", page |-> p, tuple |-> t, slot |-> None]
    ELSE LET free == get_free_slot_array(p)
             slot_num == IF free # None THEN free ELSE get_tuple_count(p)
             free_space_pointer ==
                 InsertOffset(get_free_space_pointer(p), t.data.len)
             p1 == [p EXCEPT !.data =
                       write_data(p.data, t.data, free_space_pointer,
                                  t.data.len).data]
             p2 == set_free_space_pointer(p1, free_space_pointer)
             p3 == set_tuple_offset_at_slot(p2, slot_num, free_space_pointer)
             p4 == set_tuple_size(p3, slot_num, t.data.len)
             p5 == IF slot_num = get_tuple_count(p4)
                   THEN set_tuple_count(p4, slot_num + 1) ELSE p4
         IN  [res |-> "true", page |-> Edited(p5),
              tuple |-> allocated(set_rid(t, <<p.page_id, slot_num>>)),
              slot |-> slot_num]

\* a variant that stores the flag alone and loses the size
MarkedSize_FlagOnly(tuple_size) == DELETE_MASK

\* the size field mark_delete stores for a live tuple
MarkedSize(tuple_size) == set_deleted_flag(tuple_size)

mark_delete(p, rid) ==
    LET slot_num == rid[2]
        tuple_size == get_tuple_size(p, slot_num)
    IN  IF ~ ULt(slot_num, get_tuple_count(p))
        THEN [res |-> "false", page |-> p]
        ELSE IF is_deleted(tuple_size)
        THEN [res |-> "false", page |-> p]
        ELSE [res |-> "true",
              page |-> Edited(IF tuple_size > 0
                              THEN set_tuple_size(p, slot_num, MarkedSize(tuple_size))
                              ELSE p)]

rollback_delete(p, rid) ==
    LET slot_num == rid[2]
        tuple_size == get_tuple_size(p, slot_num)
    IN  IF ~ ULt(slot_num, get_tuple_count(p))
        THEN [res |-> "err", page |-> p]
        ELSE [res |-> "ok",
              page |-> Edited(IF is_deleted(tuple_size)
                              THEN set_tuple_size(p, slot_num,
                                                  unset_deleted_flag(tuple_size))
                              ELSE p)]

\* the "update slot" loop of apply_delete and update_tuple: every slot whose
\* offset is below tuple_offset gets `delta` added to its offset
ShiftSlots_None(p, tuple_offset, delta) == p

ShiftSlots(p, tuple_offset, delta) ==
    LET n == get_tuple_count(p)
        Moved(i) == ULt(get_tuple_offset_at_slot(p, i), tuple_offset)
        RECURSIVE Go(_, _)
        Go(q, i) == IF i >= n THEN q
                    ELSE Go(IF Moved(i)
                            THEN set_tuple_offset_at_slot(
                                     q, i, get_tuple_offset_at_slot(p, i) + delta)
                            ELSE q, i + 1)
    IN  Go(p, 0)

apply_delete(p, rid) ==
    LET slot_num == rid[2]
        tuple_size == get_tuple_size(p, slot_num)
        tuple_offset == get_tuple_offset_at_slot(p, slot_num)
        free_space_pointer == get_free_space_pointer(p)
        \* remove slot
        p1 == set_tuple_offset_at_slot(set_tuple_size(p, slot_num, 0), slot_num, 0)
        \* free_space_pointer + tuple_size, the size taken with its flag bit
        p2 == set_free_space_pointer(p1, free_space_pointer + tuple_size)
        \* move data
        cw == copy_within(p2.data, free_space_pointer, tuple_offset,
                          free_space_pointer + tuple_size)
        p3 == [p2 EXCEPT !.data = cw.data]
    IN  IF p.page_id # rid[1] THEN [res |-> "err", page |-> p]
        ELSE IF ~ ULt(slot_num, get_tuple_count(p)) THEN [res |-> "err", page |-> p]
        ELSE IF ~ is_deleted(tuple_size) THEN [res |-> "err", page |-> p]
        ELSE IF ULt(tuple_offset, free_space_pointer) THEN [res |-> "err", page |-> p]
        ELSE IF cw.res = "panic" THEN [res |-> "panic", page |-> p2]
        ELSE [res |-> "ok",
              page |-> Edited(ShiftSlots(p3, tuple_offset, tuple_size))]

\* a variant that writes the new bytes where the old ones began
UpdateOffset_Old(tuple_offset, tuple_size, new_tuple_size) == tuple_offset

\* where update_tuple puts the new bytes
UpdateOffset(tuple_offset, tuple_size, new_tuple_size) ==
    tuple_offset + tuple_size - new_tuple_size

update_tuple(p, t) ==
    IF t.rid = <<>> THEN [res |-> "err", page |-> p]
    ELSE
    LET new_tuple_size == t.data.len
        slot_num == t.rid[2]
        tuple_size == get_tuple_size(p, slot_num)
        tuple_offset == get_tuple_offset_at_slot(p, slot_num)
        free_space_pointer == get_free_space_pointer(p)
        cw == copy_within(p.data, free_space_pointer, tuple_offset,
                          free_space_pointer + tuple_size - new_tuple_size)
        p1 == [p EXCEPT !.data = cw.data]
        p2 == set_free_space_pointer(
                  p1, free_space_pointer + tuple_size - new_tuple_size)
        p3 == [p2 EXCEPT !.data =
                  write_data(p2.data, t.data,
                             UpdateOffset(tuple_offset, tuple_size, new_tuple_size),
                             new_tuple_size).data]
        p4 == ShiftSlots(p3, tuple_offset, tuple_size - new_tuple_size)
        p5 == set_tuple_offset_at_slot(
                  p4, slot_num, tuple_offset + tuple_size - new_tuple_size)
        p6 == set_tuple_size(p5, slot_num, new_tuple_size)
    IN  IF new_tuple_size = 0 THEN [res |-> "err", page |-> p]
        ELSE IF ~ ULt(slot_num, get_tuple_count(p)) THEN [res |-> "err", page |-> p]
        ELSE IF is_deleted(tuple_size) THEN [res |-> "err", page |-> p]
        ELSE IF get_free_space_remaining(p) + tuple_size < new_tuple_size
             THEN [res |-> "err", page |-> p]
        ELSE IF tuple_offset < free_space_pointer THEN [res |-> "err", page |-> p]
        ELSE IF cw.res = "panic" THEN [res |-> "panic", page |-> p]
        ELSE [res |-> "ok", page |-> Edited(p6)]

get_tuple(p, rid) ==
    LET slot_num == rid[2]
        tuple_size == get_tuple_size(p, slot_num)
        tuple_offset == get_tuple_offset_at_slot(p, slot_num)
        rd == read_data(p.data, tuple_size, tuple_offset, tuple_size)
    IN  IF p.page_id # rid[1] THEN [res |-> "err", page |-> p]
        ELSE IF ~ ULt(slot_num, get_tuple_count(p)) THEN [res |-> "none", page |-> p]
        ELSE IF is_deleted(tuple_size) THEN [res |-> "none", page |-> p]
        ELSE IF rd.res # "ok" THEN [res |-> rd.res, page |-> p]
        ELSE [res |-> "some", page |-> Used(p),
              tuple |-> allocated(set_rid(Tuple_from_data(rd.data),
                                          <<p.page_id, slot_num>>))]

\* TablePage::page_is_deleted: true when the byte at OFFSET_DELETED is 0
page_is_deleted(p) ==
    LET flag == read_data(p.data, 1, OFFSET_DELETED, 1)
    IN  IF flag.res # "ok" THEN [res |-> flag.res]
        ELSE [res |-> IF At(flag.data, 0) = 0 THEN "true" ELSE "false"]

\* TablePage::delete_page
delete_page(p) ==
    LET d == page_is_deleted(p)
        w == write_data(p.data, Bytes(<<1>>), OFFSET_DELETED, 1)
    IN  IF d.res \notin {"true", "false"} THEN [res |-> d.res, page |-> p]
        ELSE IF d.res = "true" THEN [res |-> "true", page |-> p]
        ELSE IF w.res # "ok" THEN [res |-> "err", page |-> p]
        ELSE [res |-> "true", page |-> [p EXCEPT !.data = w.data]]

\* where get_lsn, get_table_page_id, get_prev_page_id and get_next_page_id
\* read their four bytes
FieldOffset(op) ==
    IF op = "get_lsn" THEN OFFSET_LSN
    ELSE IF op = "get_table_page_id" THEN 0
    ELSE IF op = "get_prev_page_id" THEN OFFSET_PREV_PAGE_ID
    ELSE OFFSET_NEXT_PAGE_ID

\* TablePage::get_lsn / get_table_page_id / get_prev_page_id /
\* get_next_page_id: status.used(), then read_data of the field
get_field(p, op) ==
    LET rd == read_data(p.data, 4, FieldOffset(op), 4)
    IN  [res |-> rd.res, page |-> Used(p), out |-> rd.data]

\* a variant that passes over no slot
SkipSlot_Never(tuple_size) == FALSE

\* whether get_first_tuple_rid and get_next_tuple_rid pass over a slot with
\* this size field
SkipSlot(tuple_size) == is_deleted(tuple_size)

\* the for loop of get_first_tuple_rid and get_next_tuple_rid: the first
\* slot in slot_num..tuple_count-1 that is not passed over, or None
RECURSIVE FirstFrom(_, _)
FirstFrom(p, slot_num) ==
    IF ~ (slot_num < get_tuple_count(p)) THEN None
    ELSE IF ~ SkipSlot(get_tuple_size(p, slot_num)) THEN slot_num
    ELSE FirstFrom(p, slot_num + 1)

get_first_tuple_rid(p) ==
    LET slot_num == FirstFrom(p, 0)
    IN  IF get_tuple_count(p) = 0 THEN [res |-> "none", page |-> p, rid |-> <<>>]
        ELSE IF slot_num # None
        THEN [res |-> "some", page |-> Used(p), rid |-> <<p.page_id, slot_num>>]
        ELSE [res |-> "none", page |-> p, rid |-> <<>>]

\* get_next_tuple_rid marks the page edited when it finds a tuple
get_next_tuple_rid(p, cur_rid) ==
    LET slot_num_i == FirstFrom(p, cur_rid[2] + 1)
    IN  IF p.page_id # cur_rid[1] THEN [res |-> "err", page |-> p, rid |-> <<>>]
        ELSE IF slot_num_i # None
        THEN [res |-> "some", page |-> Edited(p), rid |-> <<p.page_id, slot_num_i>>]
        ELSE [res |-> "none", page |-> p, rid |-> <<>>]

---------------------------------------------------------------------------
(* The Raft state machine driver (src/src/raft/state.rs).                  *)
(*  - A command or a request id is a sequence of bytes, an address a       *)
(*    string.                                                              *)
(*  - A Result<Vec<u8>> is [kind, val]: kind "Ok" with the bytes, or the   *)
(*    error's variant ("Internal", "Value", "Abort") with val <<>>.        *)
(*  - driver.notify is a function from indexes to <<address, id>>,         *)
(*    driver.queries a function from <<index, id>> to Query records; the   *)
(*    BTreeMaps iterate in the order of their keys.                        *)
(*  - state is the state machine behind Box<dyn State>: its applied index. *)
(*  - The receiver of node_tx stays open, so Driver::send succeeds.        *)

Ok(val) == [kind |-> "Ok", val |-> val]

Err(kind) == [kind |-> kind, val |-> <<>>]

\* Response::Status(status) with status.apply_index
Status(apply_index) == [kind |-> "Status", val |-> <<apply_index>>]

\* Driver::send of Event::ClientResponse { id, response }
ClientResponse(to, id, response) ==
    [from |-> "Local", to |-> to, term |-> 0, id |-> id, response |-> response]

NoEntries == [k \in {} |-> 0]

Remove(f, K) == [k \in (DOMAIN f) \ K |-> f[k]]

Insert(f, key, val) == [k \in (DOMAIN f) \cup {key} |-> IF k = key THEN val ELSE f[k]]

Driver_new == [applied_index |-> 0, notify |-> NoEntries, queries |-> NoEntries]

TestState_new(applied_index) == [applied_index |-> applied_index]

\* the match on Err(error @ Error::Internal(_))
is_internal_Never(result) == FALSE

is_internal(result) == result.kind = "Internal"

\* State::mutate with the result the state machine gives: an Internal error
\* leaves it as it was, anything else is applied at index
mutate(s, index, result) ==
    IF result.kind = "Internal" THEN s ELSE [s EXCEPT !.applied_index = index]

\* the keys of a BTreeMap<u64, BTreeMap<Vec<u8>, Query>> in iteration order
KeyLess(a, b) == a[1] < b[1] \/ (a[1] = b[1] /\ a[2][1] < b[2][1])

RECURSIVE in_order(_)
in_order(K) ==
    IF K = {} THEN <<>>
    ELSE LET k == CHOOSE x \in K : \A y \in K : y = x \/ KeyLess(x, y)
         IN  <<k>> \o in_order(K \ {k})

\* the comparison of a vote's term with a query's term
TermCounts_Any(term, query_term) == TRUE

TermCounts(term, query_term) == term >= query_term

query_vote(queries, term, commit_index, address) ==
    [k \in DOMAIN queries |->
        IF k[1] <= commit_index /\ TermCounts(term, queries[k].term)
        THEN [queries[k] EXCEPT !.votes = @ \cup {address}]
        ELSE queries[k]]

\* the ready queries in order, and the queries left
query_ready(queries, applied_index) ==
    LET R == {k \in DOMAIN queries :
                 /\ k[1] <= applied_index
                 /\ Cardinality(queries[k].votes) >= queries[k].quorum}
        ks == in_order(R)
    IN  [ready |-> [i \in 1..Len(ks) |-> queries[ks[i]]],
         queries |-> Remove(queries, R)]

\* query_execute with query_result[command] the result of state.query:
\* the queries left, the calls made, the messages sent, and res "err" when
\* a query gave an Internal error
query_execute(queries, applied_index, query_result) ==
    LET r == query_ready(queries, applied_index)
        RECURSIVE Go(_, _, _)
        Go(i, calls, sent) ==
            IF i > Len(r.ready)
            THEN [res |-> "ok", calls |-> calls, sent |-> sent]
            ELSE LET query == r.ready[i]
                     result == query_result[query.command]
                     call == [fn |-> "query", index |-> 0,
                              command |-> query.command, result |-> result]
                 IN  IF is_internal(result)
                     THEN [res |-> "err", calls |-> Append(calls, call), sent |-> sent]
                     ELSE Go(i + 1, Append(calls, call),
                             Append(sent, ClientResponse(query.address, query.id, result)))
        g == Go(1, <<>>, <<>>)
    IN  [res |-> g.res, queries |-> r.queries, calls |-> g.calls, sent |-> g.sent]

\* the notification of index, if any: the messages sent and the
\* notifications left
notify_applied_Keep(notify, index, result) ==
    IF index \in DOMAIN notify
    THEN [sent |-> <<ClientResponse(notify[index][1], notify[index][2], result)>>,
          notify |-> notify]
    ELSE [sent |-> <<>>, notify |-> notify]

notify_applied(notify, index, result) ==
    IF index \in DOMAIN notify
    THEN [sent |-> <<ClientResponse(notify[index][1], notify[index][2], result)>>,
          notify |-> Remove(notify, {index})]
    ELSE [sent |-> <<>>, notify |-> notify]

\* query_abort: one Err(Abort) per query, in the order of the map
query_abort(queries) ==
    LET ks == in_order(DOMAIN queries)
    IN  [i \in 1..Len(ks) |->
            ClientResponse(queries[ks[i]].address, ks[i][2], Err("Abort"))]

\* no Driver exists
InitNoDriver ==
    /\ driver = Driver_new
    /\ state = TestState_new(0)

---------------------------------------------------------------------------
(* The table page on its own, driven as page_test.rs drives it:            *)
(* TablePage::new(1, None, [0; PAGE_SIZE]) and then any sequence of calls. *)

\* a tuple of n bytes whose first and last bytes are not zero
Fill(n) == [len |-> n, nz |-> (0 :> 7) @@ ((n - 1) :> 9)]

\* the longest tuple a new page accepts
FillLen == PAGE_SIZE - SIZE_TABLE_PAGE_HEADER - SIZE_TUPLE

\* the tuple payloads the callers pass
TupleData ==
    { Zeros(0), Bytes(<<170>>), Bytes(<<1, 2, 3>>),
      Fill(FillLen), Fill(FillLen + 1) }

\* the RIDs the callers pass: every slot of this page, one of a foreign page
Rids == {<<1, s>> : s \in 0..MaxSlotArg} \cup {<<2, 0>>}

Call(op, rid, data, res, out) ==
    [op |-> op, rid |-> rid, data |-> data, res |-> res, out |-> out]

\* no BufferPoolManager exists
InitNoPool ==
    /\ bpm = "closed"
    /\ header_page = Zeros(PAGE_SIZE)
    /\ capacity = 0
    /\ clock_hand = 0
    /\ pages = <<>>
    /\ heap = <<>>
    /\ held = {}
    /\ pc = "idle"
    /\ evict = <<>>

InitPage ==
    /\ tp = TablePage_new(1, None, Zeros(PAGE_SIZE)).page
    /\ ret = Call("new", <<>>, Zeros(0), "ok", Zeros(0))
    /\ halted = FALSE
    /\ InitNoDriver
    /\ db = Zeros(0)
    /\ InitNoPool

\* the tuples the callers insert: new ones, and tuples that an earlier
\* get_tuple or insert_tuple has given the RID of slot 0
Tuples ==
    {Tuple_from_data(data) : data \in TupleData}
        \cup {[data |-> data, rid |-> <<1, 0>>, allocated |-> TRUE] :
                 data \in {Bytes(<<170>>), Bytes(<<1, 2, 3>>)}}

\* ret.rid is the RID of the slot the insert chose, ret.tuple the caller's
\* tuple after the call
PgInsertTuple(t) ==
    /\ UNCHANGED raftvars
    /\ ~ halted
    /\ get_tuple_count(tp) < MaxTuples
    /\ LET r == insert_tuple(tp, t)
       IN  /\ tp' = r.page
           /\ ret' = [op |-> "insert_tuple",
                      rid |-> IF r.res = "true" THEN <<tp.page_id, r.slot>> ELSE <<>>,
                      data |-> t.data, res |-> r.res, out |-> Zeros(0),
                      tuple |-> r.tuple]
           /\ halted' = (r.res = "panic")
           /\ UNCHANGED <<db, poolvars>>

PgMarkDelete(rid) ==
    /\ UNCHANGED raftvars
    /\ ~ halted
    /\ LET r == mark_delete(tp, rid)
       IN  /\ tp' = r.page
           /\ ret' = Call("mark_delete", rid, Zeros(0), r.res, Zeros(0))
           /\ halted' = (r.res = "panic")
           /\ UNCHANGED <<db, poolvars>>

PgRollbackDelete(rid) ==
    /\ UNCHANGED raftvars
    /\ ~ halted
    /\ LET r == rollback_delete(tp, rid)
       IN  /\ tp' = r.page
           /\ ret' = Call("rollback_delete", rid, Zeros(0), r.res, Zeros(0))
           /\ halted' = (r.res = "panic")
           /\ UNCHANGED <<db, poolvars>>

PgApplyDelete(rid) ==
    /\ UNCHANGED raftvars
    /\ ~ halted
    /\ LET r == apply_delete(tp, rid)
       IN  /\ tp' = r.page
           /\ ret' = Call("apply_delete", rid, Zeros(0), r.res, Zeros(0))
           /\ halted' = (r.res = "panic")
           /\ UNCHANGED <<db, poolvars>>

PgUpdateTuple(rid, data) ==
    /\ UNCHANGED raftvars
    /\ ~ halted
    /\ LET r == update_tuple(tp, [Tuple_from_data(data) EXCEPT !.rid = rid])
       IN  /\ tp' = r.page
           /\ ret' = Call("update_tuple", rid, data, r.res, Zeros(0))
           /\ halted' = (r.res = "panic")
           /\ UNCHANGED <<db, poolvars>>

PgGetTuple(rid) ==
    /\ UNCHANGED raftvars
    /\ ~ halted
    /\ LET r == get_tuple(tp, rid)
       IN  /\ tp' = r.page
           /\ ret' = Call("get_tuple", rid, Zeros(0), r.res,
                          IF r.res = "some" THEN r.tuple.data ELSE Zeros(0))
           /\ halted' = (r.res = "panic")
           /\ UNCHANGED <<db, poolvars>>

PgGetFirstTupleRid ==
    /\ UNCHANGED raftvars
    /\ ~ halted
    /\ LET r == get_first_tuple_rid(tp)
       IN  /\ tp' = r.page
           /\ ret' = Call("get_first_tuple_rid", r.rid, Zeros(0), r.res, Zeros(0))
           /\ UNCHANGED <<halted, db, poolvars>>

PgGetNextTupleRid(cur_rid) ==
    /\ UNCHANGED raftvars
    /\ ~ halted
    /\ LET r == get_next_tuple_rid(tp, cur_rid)
       IN  /\ tp' = r.page
           /\ ret' = [op |-> "get_next_tuple_rid", rid |-> r.rid, data |-> Zeros(0),
                      res |-> r.res, out |-> Zeros(0), cur_rid |-> cur_rid]
           /\ UNCHANGED <<halted, db, poolvars>>

PgDeletePage ==
    /\ UNCHANGED raftvars
    /\ ~ halted
    /\ LET r == delete_page(tp)
       IN  /\ tp' = r.page
           /\ ret' = Call("delete_page", <<>>, Zeros(0), r.res, Zeros(0))
           /\ halted' = (r.res = "panic")
           /\ UNCHANGED <<db, poolvars>>

PgPageIsDeleted ==
    /\ UNCHANGED raftvars
    /\ ~ halted
    /\ LET r == page_is_deleted(tp)
       IN  /\ ret' = Call("page_is_deleted", <<>>, Zeros(0), r.res, Zeros(0))
           /\ halted' = (r.res = "panic")
           /\ UNCHANGED <<tp, db, poolvars>>

NextPage ==
    \/ \E t \in Tuples : PgInsertTuple(t)
    \/ PgDeletePage
    \/ PgPageIsDeleted
    \/ PgGetFirstTupleRid
    \/ \E cur_rid \in Rids : PgGetNextTupleRid(cur_rid)
    \/ \E rid \in Rids : PgMarkDelete(rid)
    \/ \E rid \in Rids : PgRollbackDelete(rid)
    \/ \E rid \in Rids : PgApplyDelete(rid)
    \/ \E rid \in Rids, data \in TupleData : PgUpdateTuple(rid, data)
    \/ \E rid \in Rids : PgGetTuple(rid)

SpecPage == InitPage /\ [][NextPage]_vars

---------------------------------------------------------------------------
(* The raw helpers on their own: a page of PAGE_SIZE bytes (the data of    *)
(* tp) and any sequence of read_data and write_data calls, with caller     *)
(* buffers of 0..MaxBufLen bytes, lengths up to one more than that and     *)
(* offsets at both ends of the page.                                       *)

\* the caller's buffer of n bytes: 17, 18, ...
RawBuf(n) == Bytes([i \in 1..n |-> 16 + i])

RawLens == 0..(MaxBufLen + 1)

RawOffsets == {0, 1, PAGE_SIZE - 2, PAGE_SIZE - 1, PAGE_SIZE, PAGE_SIZE + 1}

\* buf is the caller's buffer before the call, out the buffer after it
RawCall(op, buf, offset, len, res, n, out) ==
    [op |-> op, buf |-> buf, offset |-> offset, len |-> len, res |-> res,
     n |-> n, out |-> out]

InitRaw ==
    /\ tp = TablePage_new(1, None, Zeros(PAGE_SIZE)).page
    /\ ret = RawCall("new", Zeros(0), 0, 0, "ok", 0, Zeros(0))
    /\ halted = FALSE
    /\ InitNoDriver
    /\ db = Zeros(0)
    /\ InitNoPool

RawReadData(buf, offset, len) ==
    /\ UNCHANGED raftvars
    /\ ~ halted
    /\ LET r == read_data(tp.data, buf.len, offset, len)
       IN  /\ ret' = RawCall("read_data", buf, offset, len, r.res, r.n,
                             IF r.res = "ok" THEN r.data ELSE buf)
           /\ halted' = (r.res = "panic")
           /\ UNCHANGED <<tp, db, poolvars>>

RawWriteData(buf, offset, len) ==
    /\ UNCHANGED raftvars
    /\ ~ halted
    /\ LET r == write_data(tp.data, buf, offset, len)
       IN  /\ tp' = [tp EXCEPT !.data = r.data]
           /\ ret' = RawCall("write_data", buf, offset, len, r.res, r.n, buf)
           /\ halted' = (r.res = "panic")
           /\ UNCHANGED <<db, poolvars>>

NextRaw ==
    \/ \E n \in 0..MaxBufLen, offset \in RawOffsets, len \in RawLens :
           RawReadData(RawBuf(n), offset, len)
    \/ \E n \in 0..MaxBufLen, offset \in RawOffsets, len \in RawLens :
           RawWriteData(RawBuf(n), offset, len)

SpecRaw == InitRaw /\ [][NextRaw]_vars

---------------------------------------------------------------------------
(* The table page with a caller that also reaches its Page through         *)
(* DerefMut: operations of the table page, and Page::write_data of four    *)
(* zero bytes over the size field of a slot, which leaves the slot free    *)
(* (size 0) as get_free_slot_array looks for it.  No operation of the table *)
(* page itself leaves a free slot behind: insert_tuple and update_tuple    *)
(* refuse empty tuples and apply_delete does not complete.                 *)

\* tuples that leave the page with less than SIZE_TUPLE bytes to spare
SlotTuples ==
    {Tuple_from_data(data) :
        data \in {Bytes(<<170>>), Bytes(<<1, 2, 3>>), Fill(FillLen - 1)}}

\* where the size field of the slot is
SizeField(slot_num) == OFFSET_TUPLE_SIZE + SIZE_TUPLE * slot_num

\* Page::write_data of a zero size over the size field of a slot
PgClearSlot(slot_num) ==
    /\ ~ halted
    /\ slot_num < get_tuple_count(tp)
    /\ PAGE_SIZE - get_free_space_pointer(tp) <= MaxFreedBytes
    /\ RawWriteData(Zeros(4), SizeField(slot_num), 4)

NextSlots ==
    \/ \E t \in SlotTuples : PgInsertTuple(t)
    \/ \E rid \in Rids : PgGetTuple(rid)
    \/ \E rid \in Rids : PgMarkDelete(rid)
    \/ \E rid \in Rids : PgApplyDelete(rid)
    \/ \E slot_num \in 0..(MaxTuples - 1) : PgClearSlot(slot_num)

SpecSlots == InitPage /\ [][NextSlots]_vars

---------------------------------------------------------------------------
(* The table page read by a caller that has loaded it from its bytes:     *)
(* operations of the table page, and a reload, in which the caller takes   *)
(* the bytes of the page (get_data), builds a table page of them with      *)
(* TablePage::new, and writes back through DerefMut, with                  *)
(* Page::write_data, the tuple_count and free_space_ptr that               *)
(* TablePage::new has reset.  The page after a reload has the bytes it had *)
(* and the status of a new page.                                           *)

FieldOps == {"get_lsn", "get_table_page_id", "get_prev_page_id", "get_next_page_id"}

PgGetField(op) ==
    /\ UNCHANGED raftvars
    /\ ~ halted
    /\ LET r == get_field(tp, op)
       IN  /\ tp' = r.page
           /\ ret' = Call(op, <<>>, Zeros(0), r.res, r.out)
           /\ halted' = (r.res = "panic")
           /\ UNCHANGED <<db, poolvars>>

PgReload ==
    /\ UNCHANGED raftvars
    /\ ~ halted
    /\ LET new == TablePage_new(tp.page_id, None, tp.data).page
           w1 == write_data(new.data, to_le_bytes(get_tuple_count(tp)),
                            OFFSET_TUPLE_COUNT, 4)
           w2 == write_data(w1.data, to_le_bytes(get_free_space_pointer(tp)),
                            OFFSET_FREE_SPACE, 4)
       IN  /\ tp' = [new EXCEPT !.data = w2.data]
           /\ ret' = Call("new", <<>>, Zeros(0), "ok", Zeros(0))
    /\ UNCHANGED <<halted, db, poolvars>>

NextScan ==
    \/ \E t \in SlotTuples : PgInsertTuple(t)
    \/ \E rid \in Rids : PgMarkDelete(rid)
    \/ \E rid \in Rids : PgGetTuple(rid)
    \/ PgGetFirstTupleRid
    \/ \E cur_rid \in Rids : PgGetNextTupleRid(cur_rid)
    \/ \E op \in FieldOps : PgGetField(op)
    \/ PgReload

SpecScan == InitPage /\ [][NextScan]_vars

---------------------------------------------------------------------------
(* DiskManager (disk_manager.rs).  The file is a byte buffer; a write past *)
(* its end grows it, the gap reading as zeros.                             *)

\* a * b in u32, for 0 <= a < 2^31 and 0 <= b < 2^15, by 16-bit limbs:
\* whether the product overflows u32, and its low 32 bits as a pattern
Mul32(a, b) ==
    LET low  == (a % 65536) * b
        high == (a \div 65536) * b + (low \div 65536)
        hi16 == high % 65536
    IN  [overflow |-> high >= 65536,
         value |-> (IF hi16 >= 32768 THEN hi16 - 65536 ELSE hi16) * 65536
                       + (low % 65536)]

\* DiskManager::have_page: offset + PAGE_SIZE <= file_size, in u64.  The
\* first conjunct follows from the second and keeps the product in range.
have_page(file, page_id) ==
    /\ page_id <= file.len \div PAGE_SIZE
    /\ page_id * PAGE_SIZE + PAGE_SIZE <= file.len

\* the offset write_page seeks to: page_id * (PAGE_SIZE as u32), in u32
WriteOffset(page_id) == Mul32(page_id, PAGE_SIZE)

\* DiskManager::write_page.  `build` is "debug" (overflow checks on: the
\* multiplication panics) or "release" (it wraps); io_ok is whether the
\* seek, write, flush and sync all succeed.
write_page(file, page_id, page_data, build, io_ok) ==
    LET offset == WriteOffset(page_id)
    IN  IF page_data.len # PAGE_SIZE THEN [res |-> "err", file |-> file]
        ELSE IF offset.overflow /\ build = "debug"
             THEN [res |-> "panic", file |-> file]
        ELSE IF ~ io_ok THEN [res |-> "ioerr", file |-> file]
        ELSE [res |-> "ok", file |-> Overwrite(file, offset.value, page_data)]

\* DiskManager::read_page into a buffer of PAGE_SIZE bytes
read_page(file, page_id) ==
    IF ~ have_page(file, page_id)
    THEN [res |-> "err", data |-> Zeros(PAGE_SIZE)]
    ELSE [res |-> "ok",
          data |-> Slice(file, page_id * PAGE_SIZE, page_id * PAGE_SIZE + PAGE_SIZE)]

---------------------------------------------------------------------------
(* The disk manager on its own, driven as disk_manager_test.rs drives it.  *)

\* a page-sized buffer that starts with the bytes of s
PageBuf(s) == Overwrite(Zeros(PAGE_SIZE), 0, Bytes(s))

\* the buffers the callers pass to write_page: page-sized ones and ones of
\* another length
WriteBufs ==
    { Zeros(PAGE_SIZE), PageBuf(<<1, 2, 3, 4>>), PageBuf(<<1, 5, 6, 7>>),
      Bytes(<<1, 2, 3, 4>>), Zeros(PAGE_SIZE - 1), Zeros(PAGE_SIZE + 1) }

\* the smallest page id whose byte offset does not fit u32:
\* ceil(2^32 / PAGE_SIZE), computed from 2^31 - 1
WrapPageId ==
    2 * (2147483647 \div PAGE_SIZE)
        + ((2 * (2147483647 % PAGE_SIZE) + 2 + PAGE_SIZE - 1) \div PAGE_SIZE)

PageIds == 0..MaxPageId

Builds == {"debug", "release"}

\* the write stays within the bound on the file's size
FitsFile(page_id) ==
    LET offset == WriteOffset(page_id).value
    IN  offset >= 0 /\ offset \div PAGE_SIZE < MaxFilePages

InitDisk ==
    /\ db = Zeros(0)
    /\ ret = Call("open", <<>>, Zeros(0), "ok", Zeros(0))
    /\ halted = FALSE
    /\ InitNoDriver
    /\ tp = TablePage_new(1, None, Zeros(PAGE_SIZE)).page
    /\ InitNoPool

DmWritePage(page_id, page_data, build, io_ok) ==
    /\ UNCHANGED raftvars
    /\ ~ halted
    /\ FitsFile(page_id)
    /\ LET r == write_page(db, page_id, page_data, build, io_ok)
       IN  /\ db' = r.file
           /\ ret' = Call("write_page", <<page_id>>, page_data, r.res, Zeros(0))
           /\ halted' = (r.res = "panic")
    /\ UNCHANGED <<tp, poolvars>>

DmReadPage(page_id) ==
    /\ UNCHANGED raftvars
    /\ ~ halted
    /\ LET r == read_page(db, page_id)
       IN  ret' = Call("read_page", <<page_id>>, Zeros(0), r.res, r.data)
    /\ UNCHANGED <<db, halted, tp, poolvars>>

NextDisk ==
    \/ \E page_id \in PageIds \cup {WrapPageId}, page_data \in WriteBufs,
          build \in Builds, io_ok \in BOOLEAN :
            DmWritePage(page_id, page_data, build, io_ok)
    \/ \E page_id \in PageIds \cup {WrapPageId} : DmReadPage(page_id)

SpecDisk == InitDisk /\ [][NextDisk]_vars

---------------------------------------------------------------------------
(* The clock replacer: pages is a sequence of handles, a handle is an     *)
(* index of heap, heap[h] is the table page behind the handle.            *)

\* a variant that takes used, unedited pages for HIGH and unused ones for
\* NORMAL
ExpelLevel_from_Swapped(clock_status) ==
    IF clock_status.used /\ ~ clock_status.edited THEN "HIGH"
    ELSE IF ~ clock_status.used /\ ~ clock_status.edited THEN "NORMAL"
    ELSE IF ~ clock_status.used /\ clock_status.edited THEN "MEDIUM"
    ELSE "LOW"

\* ExpelLevel::from
ExpelLevel_from(clock_status) ==
    IF ~ clock_status.used /\ ~ clock_status.edited THEN "HIGH"
    ELSE IF clock_status.used /\ ~ clock_status.edited THEN "NORMAL"
    ELSE IF ~ clock_status.used /\ clock_status.edited THEN "MEDIUM"
    ELSE "LOW"

\* ClockReplacer::group_by_level, one level's entry: the indexes (from 0)
\* of the pages of that level, in the order of pages
group_by_level(pgs, hp, level) ==
    SelectSeq([i \in 1..Len(pgs) |-> i - 1],
              LAMBDA index : ExpelLevel_from(hp[pgs[index + 1]].status) = level)

\* a variant that clears nothing
clockwise_None(pgs, hp) == hp

\* ClockReplacer::clockwise: clears the used tag of every page in pages
clockwise(pgs, hp) ==
    [h \in 1..Len(hp) |->
        IF \E i \in 1..Len(pgs) : pgs[i] = h THEN UnUsed(hp[h]) ELSE hp[h]]

\* the loop of ClockReplacer::check_hand
RECURSIVE check_hand_loop(_, _, _, _)
check_hand_loop(pgs, hp, hand, loop_counter) ==
    IF loop_counter >= 4
    THEN [res |-> "err", index |-> 0, heap |-> hp, clock_hand |-> hand,
          loop_counter |-> loop_counter]
    ELSE LET high   == group_by_level(pgs, hp, "HIGH")
             normal == group_by_level(pgs, hp, "NORMAL")
             medium == group_by_level(pgs, hp, "MEDIUM")
         IN  IF Len(high) > 0
             THEN [res |-> "some", index |-> high[1], heap |-> hp,
                   clock_hand |-> high[1], loop_counter |-> loop_counter]
             ELSE IF Len(normal) > 0
             THEN [res |-> "some", index |-> normal[1], heap |-> hp,
                   clock_hand |-> normal[1], loop_counter |-> loop_counter]
             ELSE IF Len(medium) > 0
             THEN [res |-> "some", index |-> medium[1], heap |-> hp,
                   clock_hand |-> medium[1], loop_counter |-> loop_counter]
             ELSE check_hand_loop(pgs, clockwise(pgs, hp), hand, loop_counter + 1)

\* ClockReplacer::check_hand: "none" while there is still space, else the
\* index of the page to remove
check_hand(cap, pgs, hp, hand) ==
    IF cap > Len(pgs)
    THEN [res |-> "none", index |-> 0, heap |-> hp, clock_hand |-> hand,
          loop_counter |-> 0]
    ELSE check_hand_loop(pgs, hp, hand, 0)

\* a variant that takes any capacity
ClockReplacer_new_Unchecked(cap) ==
    [res |-> "ok", clock_hand |-> 0, pages |-> <<>>, capacity |-> cap]

\* ClockReplacer::new
ClockReplacer_new(cap) ==
    IF cap = 0
    THEN [res |-> "err", clock_hand |-> 0, pages |-> <<>>, capacity |-> 0]
    ELSE [res |-> "ok", clock_hand |-> 0, pages |-> <<>>, capacity |-> cap]

\* a variant that finds no page
poll_None(pgs, hp, page_id) == 0

\* ClockReplacer::poll: the first page of pages with that id that is not
\* removed, or 0 for None
poll(pgs, hp, page_id) ==
    LET filter_page == SelectSeq(pgs, LAMBDA h :
                           hp[h].page_id = page_id /\ ~ hp[h].status.removed)
    IN  IF Len(filter_page) > 0 THEN filter_page[1] ELSE 0

\* ClockReplacer::push: the new page gets the handle Len(heap) + 1 and
\* either replaces the page check_hand chose, which is returned as victim,
\* or is appended; sweeps is the number of times check_hand ran clockwise
push(cap, pgs, hp, hand, page) ==
    LET c  == check_hand(cap, pgs, hp, hand)
        h  == Len(c.heap) + 1
    IN  IF c.res = "err"
        THEN [res |-> "err", victim |-> 0, slot |-> 0, pages |-> pgs,
              heap |-> c.heap, clock_hand |-> c.clock_hand,
              sweeps |-> c.loop_counter]
        ELSE IF c.res = "some"
        THEN [res |-> "some", victim |-> pgs[c.index + 1], slot |-> c.index + 1,
              pages |-> [pgs EXCEPT ![c.index + 1] = h],
              heap |-> Append(c.heap, page), clock_hand |-> c.clock_hand,
              sweeps |-> c.loop_counter]
        ELSE [res |-> "none", victim |-> 0, slot |-> 0,
              pages |-> Append(pgs, h),
              heap |-> Append(c.heap, page), clock_hand |-> c.clock_hand,
              sweeps |-> c.loop_counter]

\* HeaderPage::new: wraps the data and sets record_count to 0
HeaderPage_new(data) == WriteU32(data, 0, 0)

\* HeaderPage::get_record_count
get_record_count(data) == ReadU32(data, 0)

---------------------------------------------------------------------------
(* The clock replacer on its own: a caller makes a replacer, pushes table *)
(* pages, polls, and sets the status of resident pages through            *)
(* get_status_mut.                                                        *)

ReplacerCall(op, page_id, res, victim, slot) ==
    [op |-> op, rid |-> <<page_id>>, res |-> res, victim |-> victim, slot |-> slot]

\* what a push returned, and the number of sweeps it took
PushCall(page_id, r) ==
    [op |-> "push", rid |-> <<page_id>>, res |-> r.res, victim |-> r.victim,
     slot |-> r.slot, sweeps |-> r.sweeps]

\* ClockReplacer::new(capacity) with a capacity above zero
InitReplacer ==
    /\ capacity \in 1..MaxReplacerCapacity
    /\ clock_hand = 0
    /\ pages = <<>>
    /\ heap = <<>>
    /\ held = {}
    /\ ret = ReplacerCall("new", capacity, "ok", 0, 0)
    /\ halted = FALSE
    /\ InitNoDriver
    /\ db = Zeros(0)
    /\ tp = TablePage_new(1, None, Zeros(PAGE_SIZE)).page
    /\ bpm = "closed"
    /\ header_page = Zeros(PAGE_SIZE)
    /\ pc = "idle"
    /\ evict = <<>>

\* ClockReplacer::new: on Ok the caller's replacer is the new one and the
\* old one is dropped with its pages, on Err the caller keeps what it has
RpNew(cap) ==
    /\ UNCHANGED raftvars
    /\ LET r == ClockReplacer_new(cap)
       IN  /\ ret' = ReplacerCall("new", cap, r.res, 0, 0)
           /\ IF r.res = "ok"
              THEN /\ capacity' = r.capacity
                   /\ clock_hand' = r.clock_hand
                   /\ pages' = r.pages
                   /\ heap' = <<>>
              ELSE UNCHANGED <<capacity, clock_hand, pages, heap>>
    /\ UNCHANGED <<held, halted, db, tp, bpm, header_page, pc, evict>>

\* ClockReplacer::push of a new table page
RpPush(page_id) ==
    /\ UNCHANGED raftvars
    /\ Len(heap) < MaxReplacerObjs
    /\ LET r == push(capacity, pages, heap, clock_hand,
                     TablePage_new(page_id, None, Zeros(PAGE_SIZE)).page)
       IN  /\ pages' = r.pages
           /\ heap' = r.heap
           /\ clock_hand' = r.clock_hand
           /\ ret' = PushCall(page_id, r)
    /\ UNCHANGED <<capacity, held, halted, db, tp, bpm, header_page, pc, evict>>

\* ClockReplacer::poll
RpPoll(page_id) ==
    /\ UNCHANGED raftvars
    /\ LET h == poll(pages, heap, page_id)
       IN  ret' = ReplacerCall("poll", page_id, IF h = 0 THEN "none" ELSE "some", h, 0)
    /\ UNCHANGED <<capacity, pages, heap, clock_hand, held, halted, db, tp, bpm,
                   header_page, pc, evict>>

\* get_status_mut().used() / edited() / un_used() on a resident page
RpStatus(i, call) ==
    /\ UNCHANGED raftvars
    /\ i \in 1..Len(pages)
    /\ heap' = [heap EXCEPT ![pages[i]] =
                   IF call = "used" THEN Used(@)
                   ELSE IF call = "edited" THEN Edited(@) ELSE UnUsed(@)]
    /\ ret' = ReplacerCall(call, heap[pages[i]].page_id, "ok", pages[i], i)
    /\ UNCHANGED <<capacity, pages, clock_hand, held, halted, db, tp, bpm,
                   header_page, pc, evict>>

NextReplacer ==
    \/ \E cap \in 0..MaxReplacerCapacity : RpNew(cap)
    \/ \E page_id \in 1..MaxPageId : RpPush(page_id)
    \/ \E page_id \in 1..MaxPageId : RpPoll(page_id)
    \/ \E i \in 1..MaxReplacerCapacity, call \in {"used", "edited", "un_used"} :
          RpStatus(i, call)

SpecReplacer == InitReplacer /\ [][NextReplacer]_vars

---------------------------------------------------------------------------
(* The buffer pool manager over the disk manager and the clock replacer: *)
(* the caller opens a pool, fetches, creates, deletes and flushes pages,  *)
(* edits the pages it holds handles to, and drops the pool.               *)

\* what a pool operation returned: h is the handle returned (0 for none),
\* hit is whether the page was found in the replacer
PoolCall(op, page_id, res, h, hit) ==
    [op |-> op, rid |-> <<page_id>>, data |-> Zeros(0), res |-> res,
     out |-> Zeros(0), h |-> h, hit |-> hit]

\* the page ids the caller asks the pool for: MaxPageId + 1 is never written
PoolPageIds == 0..(MaxPageId + 1)

\* the tuples the caller inserts through a handle
PoolTupleData == {Bytes(<<170, 187>>)}

\* the end of push_cache and of its callers: the poll of the page pushed,
\* and for delete_page the flags set on the page fetched
Settled(op, page_id, pgs, hp, hit) ==
    LET h == poll(pgs, hp, page_id)
    IN  IF h = 0
        THEN [ret |-> PoolCall(op, page_id, "err", 0, hit), heap |-> hp, give |-> {}]
        ELSE IF op = "delete_page"
        THEN [ret |-> PoolCall(op, page_id, "true", h, hit),
              heap |-> [hp EXCEPT ![h].status.deleted = TRUE,
                                  ![h].status.edited = TRUE],
              give |-> {}]
        ELSE [ret |-> PoolCall(op, page_id, "some", h, hit), heap |-> hp,
              give |-> {h}]

\* an operation of the pool that returns Err and changes nothing
Fails(op, page_id) ==
    /\ ret' = PoolCall(op, page_id, "err", 0, FALSE)
    /\ evict' = <<>>
    /\ UNCHANGED <<db, halted, tp, bpm, header_page, capacity, clock_hand,
                   pages, heap, held, pc>>

\* the bound on the table pages a pool allocates: MaxObjs, and MaxEvictObjs
\* more over a file that holds page MaxPageId + 1
ObjBound ==
    IF have_page(db, MaxPageId + 1) THEN MaxObjs + MaxEvictObjs ELSE MaxObjs

\* push_cache: ClockReplacer::push, then set_removed on the page it returns.
\* If that page is edited the write of it is the next step (WriteBack),
\* otherwise push_cache ends here.
PushCache(op, page_id, table_page) ==
    /\ Len(heap) < ObjBound
    /\ LET r == push(capacity, pages, heap, clock_hand, table_page)
       IN  /\ clock_hand' = r.clock_hand
           /\ pages' = r.pages
           /\ IF r.res = "err"
              THEN /\ heap' = r.heap
                   /\ ret' = PoolCall(op, page_id, "err", 0, FALSE)
                   /\ UNCHANGED <<held, pc>>
                   /\ evict' = <<>>
              ELSE IF r.res = "none"
              THEN LET s == Settled(op, page_id, r.pages, r.heap, FALSE)
                   IN  /\ heap' = s.heap
                       /\ ret' = s.ret
                       /\ held' = held \cup s.give
                       /\ pc' = "idle"
                       /\ evict' = <<>>
              ELSE LET hp == [r.heap EXCEPT ![r.victim].status.removed = TRUE]
                       s  == Settled(op, page_id, r.pages, hp, FALSE)
                   IN  /\ evict' = <<[victim |-> r.victim, slot |-> r.slot,
                                      op |-> op, page_id |-> page_id]>>
                       /\ IF hp[r.victim].status.edited
                          THEN /\ heap' = hp
                               /\ ret' = PoolCall("push_cache", page_id, "pending", 0, FALSE)
                               /\ pc' = "writeback"
                               /\ held' = held
                          ELSE /\ heap' = s.heap
                               /\ ret' = s.ret
                               /\ held' = held \cup s.give
                               /\ pc' = "idle"
    /\ UNCHANGED <<db, halted, tp, bpm, header_page, capacity>>

\* BufferPoolManager::fetch_page, and the fetch inside delete_page
FetchPage(op, page_id) ==
    IF poll(pages, heap, page_id) # 0
    THEN LET s == Settled(op, page_id, pages, heap, TRUE)
         IN  /\ heap' = s.heap
             /\ ret' = s.ret
             /\ held' = held \cup s.give
             /\ evict' = <<>>
             /\ UNCHANGED <<db, halted, tp, bpm, header_page, capacity,
                            clock_hand, pages, pc>>
    ELSE LET rd == read_page(db, page_id)
             table_page == TablePage_new(page_id,
                               IF page_id > 1 THEN page_id - 1 ELSE None, rd.data)
         IN  IF rd.res # "ok" THEN Fails(op, page_id)
             ELSE IF table_page.res # "ok" THEN Fails(op, page_id)
             ELSE PushCache(op, page_id, table_page.page)

\* the caller grows the file by a page of zeros while no pool is open
BpDiskWrite(page_id) ==
    /\ UNCHANGED raftvars
    /\ bpm = "closed"
    /\ db.len = page_id * PAGE_SIZE
    /\ DmWritePage(page_id, Zeros(PAGE_SIZE), "release", TRUE)

\* BufferPoolManager::open
BpOpen(cache_capacity) ==
    /\ UNCHANGED raftvars
    /\ ~ halted /\ bpm = "closed"
    /\ LET rd == read_page(db, 0)
       IN  IF cache_capacity = 0 \/ rd.res # "ok"
           THEN /\ ret' = PoolCall("open", cache_capacity, "err", 0, FALSE)
                /\ UNCHANGED <<bpm, header_page, capacity>>
           ELSE /\ ret' = PoolCall("open", cache_capacity, "ok", 0, FALSE)
                /\ bpm' = "open"
                /\ header_page' = HeaderPage_new(rd.data)
                /\ capacity' = cache_capacity
    /\ clock_hand' = 0
    /\ pages' = <<>>
    /\ evict' = <<>>
    /\ UNCHANGED <<db, halted, tp, heap, held, pc>>

BpFetchPage(page_id) ==
    /\ UNCHANGED raftvars
    /\ ~ halted /\ bpm = "open" /\ pc = "idle"
    /\ FetchPage("fetch_page", page_id)

\* BufferPoolManager::create_page
BpCreatePage(page_id) ==
    /\ UNCHANGED raftvars
    /\ ~ halted /\ bpm = "open" /\ pc = "idle"
    /\ IF have_page(db, page_id)
       THEN /\ ret' = PoolCall("create_page", page_id, "none", 0, FALSE)
            /\ evict' = <<>>
            /\ UNCHANGED <<db, halted, tp, bpm, header_page, capacity,
                           clock_hand, pages, heap, held, pc>>
       ELSE LET rd == read_page(db, page_id)
                table_page == TablePage_new(page_id,
                                  IF page_id > 1 THEN page_id - 1 ELSE None, rd.data)
            IN  IF rd.res # "ok" THEN Fails("create_page", page_id)
                ELSE IF table_page.res # "ok" THEN Fails("create_page", page_id)
                ELSE PushCache("create_page", page_id, table_page.page)

\* BufferPoolManager::delete_page
BpDeletePage(page_id) ==
    /\ UNCHANGED raftvars
    /\ ~ halted /\ bpm = "open" /\ pc = "idle"
    /\ FetchPage("delete_page", page_id)

\* the second half of push_cache: the write of the evicted, edited page
\* and the poll of the page pushed
BpWriteBack(build, io_ok) ==
    /\ UNCHANGED raftvars
    /\ ~ halted /\ bpm = "open" /\ pc = "writeback"
    /\ LET e == evict[1]
           page == heap[e.victim]
           w == write_page(db, page.page_id, page.data, build, io_ok)
           s == Settled(e.op, e.page_id, pages, heap, FALSE)
       IN  /\ db' = w.file
           /\ halted' = (w.res = "panic")
           /\ IF w.res = "ok"
              THEN /\ heap' = s.heap
                   /\ ret' = s.ret
                   /\ held' = held \cup s.give
              ELSE /\ ret' = PoolCall(e.op, e.page_id,
                                      IF w.res = "panic" THEN "panic" ELSE "err",
                                      0, FALSE)
                   /\ UNCHANGED <<heap, held>>
    /\ pc' = "idle"
    /\ UNCHANGED <<tp, bpm, header_page, capacity, clock_hand, pages, evict>>

\* a variant that takes every page for edited
is_edited_Always(p) == TRUE

\* ClockStatus::is_edited of a table page
is_edited(p) == p.status.edited

\* BufferPoolManager::flush_page
BpFlushPage(page_id, build, io_ok) ==
    /\ UNCHANGED raftvars
    /\ ~ halted /\ bpm = "open" /\ pc = "idle"
    /\ LET h == poll(pages, heap, page_id)
           w == write_page(db, page_id, heap[h].data, build, io_ok)
       IN  IF h # 0 /\ is_edited(heap[h])
           THEN /\ db' = w.file
                /\ halted' = (w.res = "panic")
                /\ ret' = PoolCall("flush_page", page_id,
                                   IF w.res = "ok" THEN "ok"
                                   ELSE IF w.res = "panic" THEN "panic" ELSE "err",
                                   h, TRUE)
           ELSE /\ ret' = PoolCall("flush_page", page_id, "ok", h, h # 0)
                /\ UNCHANGED <<db, halted>>
    /\ evict' = <<>>
    /\ UNCHANGED <<tp, bpm, header_page, capacity, clock_hand, pages, heap,
                   held, pc>>

\* the replacer's flush iterator, which flush_all calls as get_need_flush:
\* the (page_id, bytes) of every resident edited page, in the order of pages
get_need_flush(pgs, hp) ==
    LET need == SelectSeq(pgs, LAMBDA h : is_edited(hp[h]))
    IN  [i \in 1..Len(need) |-> <<hp[need[i]].page_id, hp[need[i]].data>>]

\* the for loop of flush_all from the k-th item on; the fail_at-th
\* write_page fails (none when fail_at is 0) and `?` ends the loop
RECURSIVE flush_all_from(_, _, _, _, _)
flush_all_from(file, need, k, build, fail_at) ==
    IF k > Len(need) THEN [res |-> "ok", file |-> file]
    ELSE LET w == write_page(file, need[k][1], need[k][2], build, k # fail_at)
         IN  IF w.res # "ok" THEN [res |-> w.res, file |-> w.file]
             ELSE flush_all_from(w.file, need, k + 1, build, fail_at)

\* BufferPoolManager::flush_all
BpFlushAll(build, fail_at) ==
    /\ UNCHANGED raftvars
    /\ ~ halted /\ bpm = "open" /\ pc = "idle"
    /\ LET r == flush_all_from(db, get_need_flush(pages, heap), 1, build, fail_at)
       IN  /\ db' = r.file
           /\ halted' = (r.res = "panic")
           /\ ret' = PoolCall("flush_all", 0,
                              IF r.res = "ok" THEN "ok"
                              ELSE IF r.res = "panic" THEN "panic" ELSE "err",
                              0, FALSE)
    /\ evict' = <<>>
    /\ UNCHANGED <<tp, bpm, header_page, capacity, clock_hand, pages, heap,
                   held, pc>>

\* the pool is dropped (BufferPoolManager has no Drop impl): nothing is
\* written, and the caller lets go of its handles with it
BpDrop ==
    /\ UNCHANGED raftvars
    /\ ~ halted /\ bpm = "open" /\ pc = "idle"
    /\ bpm' = "closed"
    /\ ret' = PoolCall("drop", 0, "ok", 0, FALSE)
    /\ header_page' = Zeros(PAGE_SIZE)
    /\ capacity' = 0
    /\ clock_hand' = 0
    /\ pages' = <<>>
    /\ heap' = <<>>
    /\ held' = {}
    /\ evict' = <<>>
    /\ UNCHANGED <<db, halted, tp, pc>>

\* TablePage::insert_tuple on a page the caller holds a handle to
HInsertTuple(h, data) ==
    /\ UNCHANGED raftvars
    /\ ~ halted /\ bpm = "open" /\ pc = "idle"
    /\ h \in held
    /\ get_tuple_count(heap[h]) < MaxPoolTuples
    /\ LET r == insert_tuple(heap[h], Tuple_from_data(data))
       IN  /\ heap' = [heap EXCEPT ![h] = r.page]
           /\ ret' = [op |-> "insert_tuple", rid |-> r.tuple.rid, data |-> data,
                      res |-> r.res, out |-> Zeros(0), h |-> h]
           /\ halted' = (r.res = "panic")
    /\ evict' = <<>>
    /\ UNCHANGED <<db, tp, bpm, header_page, capacity, clock_hand, pages, held, pc>>

\* TablePage::get_tuple on a page the caller holds a handle to
HGetTuple(h, slot) ==
    /\ UNCHANGED raftvars
    /\ ~ halted /\ bpm = "open" /\ pc = "idle"
    /\ h \in held
    /\ LET rid == <<heap[h].page_id, slot>>
           r == get_tuple(heap[h], rid)
       IN  /\ heap' = [heap EXCEPT ![h] = r.page]
           /\ ret' = [op |-> "get_tuple", rid |-> rid, data |-> Zeros(0),
                      res |-> r.res,
                      out |-> IF r.res = "some" THEN r.tuple.data ELSE Zeros(0),
                      h |-> h]
           /\ halted' = (r.res = "panic")
    /\ evict' = <<>>
    /\ UNCHANGED <<db, tp, bpm, header_page, capacity, clock_hand, pages, held, pc>>

InitPool ==
    /\ db = Zeros(0)
    /\ ret = PoolCall("init", 0, "ok", 0, FALSE)
    /\ halted = FALSE
    /\ InitNoDriver
    /\ tp = TablePage_new(1, None, Zeros(PAGE_SIZE)).page
    /\ InitNoPool

NextPool ==
    \/ \E page_id \in PageIds : BpDiskWrite(page_id)
    \/ \E cache_capacity \in 0..MaxCapacity : BpOpen(cache_capacity)
    \/ \E page_id \in PoolPageIds : BpFetchPage(page_id)
    \/ \E page_id \in PoolPageIds : BpCreatePage(page_id)
    \/ \E page_id \in PoolPageIds : BpDeletePage(page_id)
    \/ \E build \in Builds, io_ok \in BOOLEAN : BpWriteBack(build, io_ok)
    \/ \E page_id \in PoolPageIds, build \in Builds, io_ok \in BOOLEAN :
          BpFlushPage(page_id, build, io_ok)
    \/ \E build \in Builds, fail_at \in 0..MaxCapacity : BpFlushAll(build, fail_at)
    \/ BpDrop
    \/ \E h \in held, data \in PoolTupleData : HInsertTuple(h, data)
    \/ \E h \in held, slot \in 0..MaxPoolTuples : HGetTuple(h, slot)

SpecPool == InitPool /\ [][NextPool]_vars

---------------------------------------------------------------------------
(* The buffer pool with a full cache: a pool of capacity MaxCapacity, just *)
(* opened over a file of zeros that holds the pages 0..MaxPageId + 1, and  *)
(* a caller that fetches and creates pages and reads and edits the pages   *)
(* it holds handles to.                                                    *)

InitEvict ==
    /\ db = Zeros((MaxPageId + 2) * PAGE_SIZE)
    /\ ret = PoolCall("open", MaxCapacity, "ok", 0, FALSE)
    /\ halted = FALSE
    /\ InitNoDriver
    /\ tp = TablePage_new(1, None, Zeros(PAGE_SIZE)).page
    /\ bpm = "open"
    /\ header_page = HeaderPage_new(Zeros(PAGE_SIZE))
    /\ capacity = MaxCapacity
    /\ clock_hand = 0
    /\ pages = <<>>
    /\ heap = <<>>
    /\ held = {}
    /\ pc = "idle"
    /\ evict = <<>>

NextEvict ==
    \/ \E page_id \in PoolPageIds : BpFetchPage(page_id)
    \/ \E page_id \in PoolPageIds : BpCreatePage(page_id)
    \/ \E build \in Builds, io_ok \in BOOLEAN : BpWriteBack(build, io_ok)
    \/ \E h \in held, data \in PoolTupleData : HInsertTuple(h, data)
    \/ \E h \in held, slot \in 0..MaxPoolTuples : HGetTuple(h, slot)

SpecEvict == InitEvict /\ [][NextEvict]_vars

---------------------------------------------------------------------------
(* HeaderPage (page.rs): record_count (4 bytes) and then the records, each *)
(* a name of 32 bytes padded with zeros and a root_id of 4 bytes.  A name  *)
(* is a buffer of its bytes.  Each operation yields `res` and the page     *)
(* data after the call.                                                    *)

\* the size of a record and of its name field
RECORD_SIZE == 36

NAME_SIZE == 32

\* str::from_utf8(..).is_ok() for the bytes the names and root ids of the
\* model are made of: ASCII bytes, and 0xFF, which no UTF-8 string contains
from_utf8_is_ok(b) == \A i \in DOMAIN b.nz : b.nz[i] < 128

\* trim_end_matches('\0')
trim_end_matches_nul(b) ==
    IF DOMAIN b.nz = {} THEN Zeros(0)
    ELSE Slice(b, 0, 1 + (CHOOSE i \in DOMAIN b.nz : \A j \in DOMAIN b.nz : j <= i))

\* the for loop of find_record_num, from record_num on
RECURSIVE find_record_from(_, _, _)
find_record_from(d, name, record_num) ==
    IF record_num >= get_record_count(d) THEN [res |-> "none", num |-> None]
    ELSE LET read_name == read_data(d, NAME_SIZE, record_num * RECORD_SIZE + 4,
                                    NAME_SIZE)
         IN  IF read_name.res # "ok" THEN [res |-> read_name.res, num |-> None]
             ELSE IF ~ from_utf8_is_ok(read_name.data)
             THEN [res |-> "panic", num |-> None]
             ELSE IF trim_end_matches_nul(read_name.data) = name
             THEN [res |-> "some", num |-> record_num]
             ELSE find_record_from(d, name, record_num + 1)

find_record_num(d, name) ==
    IF name.len > NAME_SIZE THEN [res |-> "none", num |-> None]
    ELSE IF get_record_count(d) = 0 THEN [res |-> "none", num |-> None]
    ELSE find_record_from(d, name, 0)

set_record_count(d, record_count) == WriteU32(d, 0, record_count)

insert_record(d, name, root_id) ==
    LET f == find_record_num(d, name)
        record_count == get_record_count(d)
        name_offset == 4 + record_count * RECORD_SIZE
        d1 == write_data(d, name, name_offset, NAME_SIZE)
        d2 == write_data(d1.data, to_le_bytes(root_id), name_offset + NAME_SIZE, 4)
    IN  IF name.len > NAME_SIZE THEN [res |-> "false", data |-> d]
        ELSE IF f.res \in {"panic", "err"} THEN [res |-> f.res, data |-> d]
        ELSE IF f.res = "some" THEN [res |-> "false", data |-> d]
        ELSE IF d1.res # "ok" THEN [res |-> "err", data |-> d]
        ELSE IF d2.res # "ok" THEN [res |-> "err", data |-> d1.data]
        ELSE [res |-> "true", data |-> set_record_count(d2.data, record_count + 1)]

delete_record(d, name) ==
    LET record_count == get_record_count(d)
        f == find_record_num(d, name)
        offset == f.num * RECORD_SIZE + 4
        cw == copy_within(d, offset + RECORD_SIZE, record_count * RECORD_SIZE + 4,
                          offset)
    IN  IF record_count = 0 THEN [res |-> "false", data |-> d]
        ELSE IF f.res \in {"panic", "err"} THEN [res |-> f.res, data |-> d]
        ELSE IF f.res = "none" THEN [res |-> "false", data |-> d]
        ELSE IF cw.res # "ok" THEN [res |-> "panic", data |-> d]
        ELSE [res |-> "true", data |-> set_record_count(cw.data, record_count - 1)]

\* update_record writes the root_id at the offset of the record, where its
\* name starts
update_record(d, name, root_id) ==
    LET f == find_record_num(d, name)
        offset == f.num * RECORD_SIZE + 4
        w == write_data(d, to_le_bytes(root_id), offset, 4)
    IN  IF f.res \in {"panic", "err"} THEN [res |-> f.res, data |-> d]
        ELSE IF f.res = "none" THEN [res |-> "false", data |-> d]
        ELSE IF w.res # "ok" THEN [res |-> "err", data |-> d]
        ELSE [res |-> "true", data |-> w.data]

get_root_id(d, name) ==
    LET f == find_record_num(d, name)
        rd == read_data(d, 4, f.num * RECORD_SIZE + 4 + NAME_SIZE, 4)
    IN  IF f.res \in {"panic", "err"} THEN [res |-> f.res, root_id |-> None]
        ELSE IF f.res = "none" THEN [res |-> "none", root_id |-> None]
        ELSE IF rd.res # "ok" THEN [res |-> rd.res, root_id |-> None]
        ELSE [res |-> "some", root_id |-> from_le_bytes(rd.data)]

---------------------------------------------------------------------------
(* The header page on its own, driven as page_test.rs drives it:           *)
(* HeaderPage::new([0; PAGE_SIZE]) and then any sequence of calls.  The    *)
(* page data is held in header_page.                                       *)

\* the names the callers pass: "a", "b", "ab", and one of 33 bytes
Names ==
    { Bytes(<<97>>), Bytes(<<98>>), Bytes(<<97, 98>>),
      [len |-> NAME_SIZE + 1, nz |-> [i \in 0..NAME_SIZE |-> 97]] }

\* the root ids the callers pass
RootIds == {1, 2, 255}

HeaderCall(op, name, root_id, res, out) ==
    [op |-> op, name |-> name, root_id |-> root_id, res |-> res, out |-> out]

InitHeader ==
    /\ header_page = HeaderPage_new(Zeros(PAGE_SIZE))
    /\ ret = HeaderCall("new", Zeros(0), 0, "ok", None)
    /\ halted = FALSE
    /\ InitNoDriver
    /\ db = Zeros(0)
    /\ tp = TablePage_new(1, None, Zeros(PAGE_SIZE)).page
    /\ bpm = "closed"
    /\ capacity = 0
    /\ clock_hand = 0
    /\ pages = <<>>
    /\ heap = <<>>
    /\ held = {}
    /\ pc = "idle"
    /\ evict = <<>>

HpInsertRecord(name, root_id) ==
    /\ UNCHANGED raftvars
    /\ ~ halted
    /\ get_record_count(header_page) < MaxRecords
    /\ LET r == insert_record(header_page, name, root_id)
       IN  /\ header_page' = r.data
           /\ ret' = HeaderCall("insert_record", name, root_id, r.res, None)
           /\ halted' = (r.res = "panic")
    /\ UNCHANGED <<tp, db, bpm, capacity, clock_hand, pages, heap, held, pc, evict>>

HpDeleteRecord(name) ==
    /\ UNCHANGED raftvars
    /\ ~ halted
    /\ LET r == delete_record(header_page, name)
       IN  /\ header_page' = r.data
           /\ ret' = HeaderCall("delete_record", name, 0, r.res, None)
           /\ halted' = (r.res = "panic")
    /\ UNCHANGED <<tp, db, bpm, capacity, clock_hand, pages, heap, held, pc, evict>>

HpUpdateRecord(name, root_id) ==
    /\ UNCHANGED raftvars
    /\ ~ halted
    /\ LET r == update_record(header_page, name, root_id)
       IN  /\ header_page' = r.data
           /\ ret' = HeaderCall("update_record", name, root_id, r.res, None)
           /\ halted' = (r.res = "panic")
    /\ UNCHANGED <<tp, db, bpm, capacity, clock_hand, pages, heap, held, pc, evict>>

HpGetRootId(name) ==
    /\ UNCHANGED raftvars
    /\ ~ halted
    /\ LET r == get_root_id(header_page, name)
       IN  /\ ret' = HeaderCall("get_root_id", name, 0, r.res, r.root_id)
           /\ halted' = (r.res = "panic")
    /\ UNCHANGED <<header_page, tp, db, bpm, capacity, clock_hand, pages, heap,
                   held, pc, evict>>

NextHeader ==
    \/ \E name \in Names, root_id \in RootIds : HpInsertRecord(name, root_id)
    \/ \E name \in Names : HpDeleteRecord(name)
    \/ \E name \in Names, root_id \in RootIds : HpUpdateRecord(name, root_id)
    \/ \E name \in Names : HpGetRootId(name)

SpecHeader == InitHeader /\ [][NextHeader]_vars

---------------------------------------------------------------------------
(* The catalog across an open: a caller fills a header page with records, *)
(* writes its bytes to page 0 of the file with the disk manager, and opens *)
(* a pool, whose header page is made of the bytes of page 0.  The header   *)
(* page at hand, the caller's or the pool's, is held in header_page.       *)

\* the names and root ids of the catalog: "a", "b"
CatalogNames == {Bytes(<<97>>), Bytes(<<98>>)}

CatalogRootIds == {1, 2}

\* DiskManager::write_page(0, ..) of the bytes of the header page
HpStore(build, io_ok) ==
    /\ UNCHANGED raftvars
    /\ ~ halted /\ bpm = "closed"
    /\ LET w == write_page(db, 0, header_page, build, io_ok)
       IN  /\ db' = w.file
           /\ ret' = HeaderCall("write_page", Zeros(0), 0, w.res, None)
           /\ halted' = (w.res = "panic")
    /\ UNCHANGED <<header_page, tp, bpm, capacity, clock_hand, pages, heap,
                   held, pc, evict>>

NextCatalog ==
    \/ \E name \in CatalogNames, root_id \in CatalogRootIds :
          HpInsertRecord(name, root_id)
    \/ \E name \in CatalogNames : HpGetRootId(name)
    \/ \E build \in Builds, io_ok \in BOOLEAN : HpStore(build, io_ok)
    \/ \E cache_capacity \in 0..1 : BpOpen(cache_capacity)
    \/ BpDrop

SpecCatalog == InitHeader /\ [][NextCatalog]_vars

---------------------------------------------------------------------------
(* The driver on its own, driven as the tests of state.rs drive it: a      *)
(* Driver over a state machine with applied index 0, and then any sequence *)
(* of instructions.  The log entries arrive in the order of their indexes. *)
(* ret.i is the instruction, ret.calls the calls it made on the state      *)
(* machine, each with its result, and ret.sent the messages it sent on     *)
(* node_tx, both in order.                                                 *)

Indexes == 1..MaxIndex

Terms == 1..MaxTerm

Voters == {"Local", "Peer(a)"}

NotifyRequests ==
    {[id |-> <<1>>, address |-> "Client"], [id |-> <<2>>, address |-> "Peer(a)"]}

QueryRequests == {[id |-> <<3>>, address |-> "Client"]}

StatusRequests == {[id |-> <<4>>, address |-> "Client"]}

MutateCommands == {<<175>>}

QueryCommands == {<<240>>}

Quorums == 1..MaxQuorum

\* what mutate or query of a state machine can return for a command
Results(command) == {Ok(command), Err("Internal"), Err("Value")}

QueryResults ==
    {f \in [QueryCommands -> UNION {Results(c) : c \in QueryCommands}] :
        \A c \in QueryCommands : f[c] \in Results(c)}

\* the orders in which a HashMap can iterate over the keys K
Orders(K) ==
    {f \in [1..Cardinality(K) -> K] : \A i, j \in DOMAIN f : f[i] = f[j] => i = j}

\* notify_abort, the HashMap iterating in the given order
notify_abort_None(notify, order) == <<>>

notify_abort(notify, order) ==
    [i \in 1..Len(order) |->
        ClientResponse(notify[order[i]][1], notify[order[i]][2], Err("Abort"))]

DriverCall(i, res, calls, sent) ==
    [op |-> i.op, i |-> i, res |-> res, calls |-> calls, sent |-> sent]

InitDriver ==
    /\ driver = Driver_new
    /\ state = TestState_new(0)
    /\ ret = DriverCall([op |-> "new"], "ok", <<>>, <<>>)
    /\ halted = FALSE
    /\ db = Zeros(0)
    /\ tp = TablePage_new(1, None, Zeros(PAGE_SIZE)).page
    /\ InitNoPool

DrAbort ==
    /\ ~ halted
    /\ \E order \in Orders(DOMAIN driver.notify) :
          ret' = DriverCall([op |-> "Abort"], "ok", <<>>,
                            notify_abort(driver.notify, order)
                                \o query_abort(driver.queries))
    /\ driver' = [driver EXCEPT !.notify = NoEntries, !.queries = NoEntries]
    /\ UNCHANGED <<state, halted, tp, db, poolvars>>

\* command is <<>> for None and <<c>> for Some(c); result is what mutate
\* returns, query_result what query returns for each command
DrApply(command, result, query_result) ==
    /\ ~ halted
    /\ driver.applied_index < MaxIndex
    /\ LET index == driver.applied_index + 1
           i == [op |-> "Apply", index |-> index, command |-> command]
           call == [fn |-> "mutate", index |-> index, command |-> command[1],
                    result |-> result]
           calls == IF command # <<>> THEN <<call>> ELSE <<>>
           na == IF command # <<>>
                 THEN notify_applied(driver.notify, index, result)
                 ELSE [sent |-> <<>>, notify |-> driver.notify]
           qe == query_execute(driver.queries, index, query_result)
       IN  /\ state' = IF command # <<>> THEN mutate(state, index, result) ELSE state
           /\ IF command # <<>> /\ is_internal(result)
              THEN /\ ret' = DriverCall(i, "err", calls, <<>>)
                   /\ halted' = TRUE
                   /\ UNCHANGED driver
              ELSE /\ ret' = DriverCall(i, qe.res, calls \o qe.calls, na.sent \o qe.sent)
                   /\ halted' = (qe.res = "err")
                   /\ driver' = [applied_index |-> index, notify |-> na.notify,
                                 queries |-> qe.queries]
    /\ UNCHANGED <<tp, db, poolvars>>

DrNotify(id, address, index) ==
    /\ ~ halted
    /\ LET i == [op |-> "Notify", id |-> id, address |-> address, index |-> index]
       IN  IF index > state.applied_index
           THEN /\ driver' = [driver EXCEPT
                                 !.notify = Insert(@, index, <<address, id>>)]
                /\ ret' = DriverCall(i, "ok", <<>>, <<>>)
           ELSE /\ ret' = DriverCall(i, "ok", <<>>,
                                     <<ClientResponse(address, id, Err("Abort"))>>)
                /\ UNCHANGED driver
    /\ UNCHANGED <<state, halted, tp, db, poolvars>>

DrQuery(id, address, command, term, index, quorum) ==
    /\ ~ halted
    /\ driver' = [driver EXCEPT
                     !.queries = Insert(@, <<index, id>>,
                                        [id |-> id, term |-> term,
                                         address |-> address, command |-> command,
                                         quorum |-> quorum, votes |-> {}])]
    /\ ret' = DriverCall([op |-> "Query", id |-> id, address |-> address,
                          command |-> command, term |-> term, index |-> index,
                          quorum |-> quorum], "ok", <<>>, <<>>)
    /\ UNCHANGED <<state, halted, tp, db, poolvars>>

DrStatus(id, address) ==
    /\ ~ halted
    /\ ret' = DriverCall([op |-> "Status", id |-> id, address |-> address], "ok",
                         <<>>,
                         <<ClientResponse(address, id, Status(state.applied_index))>>)
    /\ UNCHANGED <<driver, state, halted, tp, db, poolvars>>

DrVote(term, index, address, query_result) ==
    /\ ~ halted
    /\ LET voted == query_vote(driver.queries, term, index, address)
           qe == query_execute(voted, driver.applied_index, query_result)
       IN  /\ driver' = [driver EXCEPT !.queries = qe.queries]
           /\ ret' = DriverCall([op |-> "Vote", term |-> term, index |-> index,
                                 address |-> address], qe.res, qe.calls, qe.sent)
           /\ halted' = (qe.res = "err")
    /\ UNCHANGED <<state, tp, db, poolvars>>

NextDriver ==
    \/ DrAbort
    \/ \E command \in {<<>>} \cup {<<c>> : c \in MutateCommands},
          query_result \in QueryResults :
          \E result \in IF command = <<>> THEN {Ok(<<>>)} ELSE Results(command[1]) :
             DrApply(command, result, query_result)
    \/ \E r \in NotifyRequests, index \in Indexes : DrNotify(r.id, r.address, index)
    \/ \E r \in QueryRequests, command \in QueryCommands, term \in Terms,
          index \in Indexes, quorum \in Quorums :
          DrQuery(r.id, r.address, command, term, index, quorum)
    \/ \E r \in StatusRequests : DrStatus(r.id, r.address)
    \/ \E term \in Terms, index \in Indexes, address \in Voters,
          query_result \in QueryResults :
          DrVote(term, index, address, query_result)

SpecDriver == InitDriver /\ [][NextDriver]_vars

---------------------------------------------------------------------------
(* Properties of the raft driver *)

\* how many messages of the sequence sent go to address `to` with id `id`
CountTo(sent, to, id) ==
    Cardinality({j \in DOMAIN sent : sent[j].to = to /\ sent[j].id = id})

\* the calls of function fn among calls
CallsOf(calls, fn) == {j \in DOMAIN calls : calls[j].fn = fn}

\* the votes query q of index qi has after instruction i: its votes, and
\* the address of i when i is a vote of a commit index and a term that are
\* not below the query's
Counted(q, qi, i) ==
    q.votes \cup (IF i.op = "Vote" /\ i.index >= qi /\ i.term >= q.term
                 THEN {i.address} ELSE {})

\* C22: a pending query is executed (state.query called, its result sent
\* to its address once, the query no longer pending) only when the applied
\* index has reached its index and at least quorum distinct addresses
\* have voted for it with a commit index and a term not below its own;
\* otherwise it stays pending with the votes that count and no response
\* to it is sent.
C22_QueryNeedsQuorum ==
    [][ LET i == ret'.i
            before == driver.queries
            after == driver'.queries
            Executed == IF i.op \in {"Apply", "Vote"}
                        THEN (DOMAIN before) \ (DOMAIN after) ELSE {}
            QueryIds == {r.id : r \in QueryRequests}
            Answers == {j \in DOMAIN ret'.sent :
                           /\ ret'.sent[j].id \in QueryIds
                           /\ ret'.sent[j].response.kind \in {"Ok", "Value"}}
        IN  /\ \A k \in Executed :
                   /\ driver'.applied_index >= k[1]
                   /\ Cardinality(Counted(before[k], k[1], i)) >= before[k].quorum
            /\ i.op \in {"Apply", "Vote"} =>
                   \A k \in (DOMAIN before) \cap (DOMAIN after) :
                      after[k] = [before[k] EXCEPT !.votes = Counted(before[k], k[1], i)]
            /\ Cardinality(CallsOf(ret'.calls, "query")) <= Cardinality(Executed)
            /\ Cardinality(Answers) <= Cardinality(Executed)
            /\ ret'.res = "ok" =>
                   /\ Cardinality(CallsOf(ret'.calls, "query")) = Cardinality(Executed)
                   /\ Cardinality(Answers) = Cardinality(Executed)
                   /\ \A k \in Executed :
                          \E j \in Answers :
                             /\ ret'.sent[j].to = before[k].address
                             /\ ret'.sent[j].id = before[k].id
                             /\ ret'.sent[j].response \in Results(before[k].command)
      ]_vars

\* a vote has just completed a quorum and the query was answered
C22_Witness ==
    /\ ret.op = "Vote"
    /\ ret.res = "ok"
    /\ \E j \in DOMAIN ret.sent : ret.sent[j].response.kind = "Ok"
    /\ driver.queries # NoEntries

\* what an Apply step of an entry does when the entry has a command and
\* mutate returns `result`
ApplyCommand(i, result) ==
    /\ CallsOf(ret'.calls, "mutate") = {1}
    /\ ret'.calls[1].index = i.index
    /\ ret'.calls[1].command = i.command[1]
    /\ i.index \in DOMAIN driver.notify =>
           /\ CountTo(ret'.sent, driver.notify[i.index][1], driver.notify[i.index][2]) = 1
           /\ \E j \in DOMAIN ret'.sent :
                  ret'.sent[j] = ClientResponse(driver.notify[i.index][1],
                                                driver.notify[i.index][2], result)
    /\ driver'.notify = Remove(driver.notify, {i.index})

\* what an Apply step of an entry without a command does
ApplyNoCommand ==
    /\ CallsOf(ret'.calls, "mutate") = {}
    /\ \A j \in DOMAIN ret'.sent, n \in DOMAIN driver.notify :
           <<ret'.sent[j].to, ret'.sent[j].id>> # driver.notify[n]
    /\ driver'.notify = driver.notify

Pending(d) ==
    {<<d.notify[n][1], d.notify[n][2]>> : n \in DOMAIN d.notify}
        \cup {<<d.queries[k].address, d.queries[k].id>> : k \in DOMAIN d.queries}

\* how many notifications and queries of d are pending for <<address, id>>
PendingFor(d, c) ==
    Cardinality({n \in DOMAIN d.notify : d.notify[n] = c})
        + Cardinality({k \in DOMAIN d.queries :
                          <<d.queries[k].address, d.queries[k].id>> = c})

\* C24: an Abort sends one ClientResponse with Err(Abort) for every
\* pending notification and every pending query, to its address, and
\* nothing else; it leaves no notification and no query pending, calls
\* neither mutate nor query and leaves the applied index as it was.
C24_Abort ==
    [][ ret'.op = "Abort" =>
          /\ \A j \in DOMAIN ret'.sent :
                 /\ ret'.sent[j].response = Err("Abort")
                 /\ <<ret'.sent[j].to, ret'.sent[j].id>> \in Pending(driver)
          /\ \A c \in Pending(driver) :
                 CountTo(ret'.sent, c[1], c[2]) = PendingFor(driver, c)
          /\ driver'.notify = NoEntries
          /\ driver'.queries = NoEntries
          /\ ret'.calls = <<>>
          /\ driver'.applied_index = driver.applied_index
          /\ state' = state
          /\ ~ halted' ]_vars

\* an Abort has answered two notifications and a query
C24_Witness ==
    /\ ret.op = "Abort"
    /\ Len(ret.sent) >= 3
    /\ \E j \in DOMAIN ret.sent : ret.sent[j].id \in {r.id : r \in QueryRequests}

\* the queries of index up to applied_index with a quorum of votes
Ready(queries, applied_index) ==
    {k \in DOMAIN queries :
        k[1] <= applied_index /\ Cardinality(queries[k].votes) >= queries[k].quorum}

\* C25: when mutate returns Error::Internal the driver halts: it sends no
\* notification, does not advance applied_index and executes no later
\* instruction.  With any other error the entry counts as applied:
\* applied_index advances, the queries that are ready at the new index are
\* executed and the error goes to the client registered for the index.
C25_MutateError ==
    [][ /\ ~ halted
        /\ (ret'.op = "Apply" /\ ret'.i.command # <<>>) =>
              LET i == ret'.i
                  result == ret'.calls[1].result
              IN  /\ result.kind = "Internal" =>
                        /\ halted'
                        /\ ret'.res = "err"
                        /\ ret'.sent = <<>>
                        /\ driver' = driver
                  /\ result.kind = "Value" =>
                        /\ driver'.applied_index = i.index
                        /\ Ready(driver'.queries, i.index) = {}
                        /\ Cardinality(CallsOf(ret'.calls, "query")) > 0
                               <=> Ready(driver.queries, i.index) # {}
                        /\ i.index \in DOMAIN driver.notify =>
                               /\ ret'.sent # <<>>
                               /\ ret'.sent[1] = ClientResponse(driver.notify[i.index][1],
                                                                driver.notify[i.index][2],
                                                                Err("Value"))
                               /\ i.index \notin DOMAIN driver'.notify ]_vars

\* the driver has halted on an Internal error of mutate, the client of
\* the entry still registered
C25_Witness ==
    /\ halted
    /\ ret.op = "Apply"
    /\ ret.calls # <<>>
    /\ ret.calls[1].fn = "mutate"
    /\ ret.calls[1].result.kind = "Internal"
    /\ ret.i.index \in DOMAIN driver.notify

\* the indexes whose notification in d is no longer registered in e
Unregistered(d, e) ==
    {n \in DOMAIN d.notify :
        n \notin DOMAIN e.notify \/ e.notify[n] # d.notify[n]}

\* C40: a Notify whose index is not above the state machine's applied index
\* is answered at once with one Err(Abort) and registers nothing; any other
\* Notify is registered and answered later.  In every step, a registered
\* notification either stays registered as it is and gets no response, or
\* is taken out and gets one response to its address: the mutate result
\* when the entry of its index is applied, Err(Abort) on Abort.  No step
\* takes a notification out, or puts another in its place, without the
\* response.
C40_NotifyAnswered ==
    [][ /\ \A n \in Unregistered(driver, driver') :
               LET c == driver.notify[n]
               IN  /\ ret'.op \in {"Apply", "Abort"}
                   /\ CountTo(ret'.sent, c[1], c[2])
                        = Cardinality({k \in Unregistered(driver, driver') :
                                          driver.notify[k] = c})
                   /\ \E j \in DOMAIN ret'.sent :
                          ret'.sent[j]
                            = ClientResponse(c[1], c[2],
                                             IF ret'.op = "Abort" THEN Err("Abort")
                                             ELSE ret'.calls[1].result)
        /\ \A n \in (DOMAIN driver.notify) \ Unregistered(driver, driver') :
               \/ CountTo(ret'.sent, driver.notify[n][1], driver.notify[n][2]) = 0
               \/ \E k \in Unregistered(driver, driver') :
                      driver.notify[k] = driver.notify[n]
               \/ /\ ret'.op = "Notify"
                  /\ <<ret'.i.address, ret'.i.id>> = driver.notify[n]
        /\ ret'.op = "Notify"
            => LET i == ret'.i
               IN  IF i.index > state.applied_index
                   THEN /\ ret'.sent = <<>>
                        /\ i.index \in DOMAIN driver'.notify
                        /\ driver'.notify[i.index] = <<i.address, i.id>>
                   ELSE /\ ret'.sent
                             = <<ClientResponse(i.address, i.id, Err("Abort"))>>
                        /\ driver' = driver ]_vars

---------------------------------------------------------------------------
(* Properties of the table page *)

\* the RID of slot s on the page under test
Own(s) == <<tp.page_id, s>>

\* get_tuple(rid) on page p finds a tuple / finds the bytes `data`
Live(p, rid) == get_tuple(p, rid).res = "some"

Holds(p, rid, data) == Live(p, rid) /\ get_tuple(p, rid).tuple.data = data

\* every tuple get_tuple finds on p is found with the same bytes on q,
\* except at slot `but`
OthersKept(p, q, but) ==
    \A s \in 0..MaxSlotArg :
        (s # but /\ Live(p, <<p.page_id, s>>))
            => Holds(q, <<p.page_id, s>>, get_tuple(p, <<p.page_id, s>>).tuple.data)

\* C7: an insert_tuple that returns true stores the tuple so that get_tuple
\* at the slot it was given returns exactly the inserted bytes, and every
\* tuple stored before is still returned with its bytes after the insert.
C7_InsertThenGet ==
    [][ (ret'.op = "insert_tuple" /\ ret'.res = "true")
          => /\ Holds(tp', ret'.rid, ret'.data)
             /\ OthersKept(tp, tp', ret'.rid[2]) ]_vars

\* a second insert has returned true while the first tuple is still live
C7_Witness ==
    /\ ret.op = "insert_tuple" /\ ret.res = "true"
    /\ ret.rid = Own(1)
    /\ Live(tp, Own(0))

\* C8: for a live tuple at rid, mark_delete(rid) followed by
\* apply_delete(rid) succeeds, leaves the slot free (offset 0, size 0),
\* increases free_space_ptr by the tuple's real size (the low 31 bits of the
\* size field) and afterwards get_tuple(rid) returns not found.
C8_ApplyDeleteFreesSlot ==
    [][ ( /\ ret.op = "mark_delete" /\ ret.res = "true"
          /\ ret'.op = "apply_delete" /\ ret'.rid = ret.rid
          /\ ret.rid[1] = tp.page_id )
          => LET s == ret.rid[2]
             IN  /\ ret'.res = "ok"
                 /\ get_tuple_offset_at_slot(tp', s) = 0
                 /\ get_tuple_size(tp', s) = 0
                 /\ get_free_space_pointer(tp')
                      = get_free_space_pointer(tp)
                          + unset_deleted_flag(get_tuple_size(tp, s))
                 /\ get_tuple(tp', ret.rid).res = "none" ]_vars

\* C9: a successful update_tuple of slot s makes get_tuple(s) return the new
\* bytes, leaves get_tuple of every other live RID returning the same bytes,
\* and changes free_space_ptr by exactly old_size - new_size.
C9_UpdateFrame ==
    [][ (ret'.op = "update_tuple" /\ ret'.res = "ok")
          => LET s == ret'.rid[2]
             IN  /\ Holds(tp', Own(s), ret'.data)
                 /\ OthersKept(tp, tp', s)
                 /\ get_free_space_pointer(tp') - get_free_space_pointer(tp)
                      = get_tuple_size(tp, s) - ret'.data.len ]_vars

\* slot 0 has been updated to three bytes while the one-byte tuple inserted
\* after it (stored below it) is live: the update moved that tuple
C9_Witness ==
    /\ ret.op = "update_tuple" /\ ret.res = "ok"
    /\ ret.rid = Own(0) /\ ret.data = Bytes(<<1, 2, 3>>)
    /\ Holds(tp, Own(1), Bytes(<<170>>))
    /\ get_free_space_pointer(tp) = PAGE_SIZE - 4

\* C10: mark_delete of a live tuple returns true and makes get_tuple return
\* not found without changing the tuple's bytes, its offset or
\* free_space_ptr, and rollback_delete then makes get_tuple return the
\* original bytes; mark_delete of a slot that does not exist or is already
\* tombstoned returns false and changes nothing.
C10_MarkThenRollback ==
    [][ (ret'.op = "mark_delete")
          => LET s   == ret'.rid[2]
                 off == get_tuple_offset_at_slot(tp, s)
                 len == get_tuple_size(tp, s)
             IN  IF Live(tp, Own(s))
                 THEN /\ ret'.res = "true"
                      /\ get_tuple(tp', Own(s)).res = "none"
                      /\ get_free_space_pointer(tp') = get_free_space_pointer(tp)
                      /\ get_tuple_offset_at_slot(tp', s) = off
                      /\ Slice(tp'.data, off, off + len) = Slice(tp.data, off, off + len)
                      /\ OthersKept(tp, tp', s)
                      /\ rollback_delete(tp', Own(s)).res = "ok"
                      /\ Holds(rollback_delete(tp', Own(s)).page, Own(s),
                               get_tuple(tp, Own(s)).tuple.data)
                 ELSE /\ ret'.res = "false"
                      /\ tp' = tp ]_vars

\* rollback_delete has just restored a tuple that mark_delete had hidden
C10_Witness ==
    /\ ret.op = "rollback_delete" /\ ret.res = "ok"
    /\ ret.rid = Own(0)
    /\ Holds(tp, Own(0), Bytes(<<1, 2, 3>>))
    /\ tp.status.edited

\* the slots visited by get_first_tuple_rid and then get_next_tuple_rid of
\* the RID last returned, until none is returned
RECURSIVE ScanFrom(_, _)
ScanFrom(p, r) ==
    IF r.res # "some" THEN <<>>
    ELSE <<r.rid[2]>> \o ScanFrom(r.page, get_next_tuple_rid(r.page, r.rid))

Scan(p) == ScanFrom(p, get_first_tuple_rid(p))

\* C11: get_first_tuple_rid followed by get_next_tuple_rid until it returns
\* none visits exactly the slots for which get_tuple returns a tuple, each
\* once, in ascending slot order.
C11_ScanVisitsLive ==
    LET visited == Scan(tp)
    IN  /\ \A i, j \in 1..Len(visited) : i < j => visited[i] < visited[j]
        /\ {visited[i] : i \in 1..Len(visited)}
              = {s \in 0..MaxTuples : Live(tp, Own(s))}

\* get_next_tuple_rid from slot 0 has passed over the tombstoned slot 1 and
\* returned none, on a page whose slot 0 is live
C11_Witness ==
    /\ ret.op = "get_next_tuple_rid" /\ ret.res = "none"
    /\ ret.cur_rid = Own(0)
    /\ get_tuple_count(tp) = 2
    /\ HighBit(get_tuple_size(tp, 1))
    /\ Scan(tp) = <<0>>

\* the bytes between the end of the slot array and the free space pointer
FreeBytes(p) ==
    get_free_space_pointer(p) - SIZE_TABLE_PAGE_HEADER
        - SIZE_TUPLE * get_tuple_count(p)

\* C12: on a page with no free slot, insert_tuple of a non-empty tuple of
\* length L returns true iff the free space remaining is at least
\* L + SIZE_TUPLE; when it returns false the page is unchanged; an empty
\* tuple is rejected with a value error.
C12_InsertNeedsSpace ==
    [][ (ret'.op = "insert_tuple")
          => LET L == ret'.data.len
             IN  /\ L = 0 => (ret'.res = "err" /\ tp' = tp)
                 /\ (L > 0 /\ get_free_slot_array(tp) = None)
                      => /\ ret'.res \in {"true", "false"}
                         /\ ret'.res = "true" <=> FreeBytes(tp) >= L + SIZE_TUPLE
                         /\ ret'.res = "false"
                              => /\ tp'.data = tp.data
                                 /\ get_tuple_count(tp') = get_tuple_count(tp)
                                 /\ get_free_space_pointer(tp')
                                      = get_free_space_pointer(tp) ]_vars

\* an insert has been refused on a page that lacks exactly one byte for it
C12_Witness ==
    /\ ret.op = "insert_tuple" /\ ret.res = "false"
    /\ get_free_slot_array(tp) = None
    /\ FreeBytes(tp) = ret.data.len + SIZE_TUPLE - 1

\* C13: after an insert_tuple that returns true the caller's tuple has the
\* RID (this page, slot chosen by the insert) and is marked allocated, also
\* when the tuple already carried a RID.
C13_InsertSetsRid ==
    [][ (ret'.op = "insert_tuple" /\ ret'.res = "true")
          => /\ ret'.tuple.rid = ret'.rid
             /\ ret'.tuple.allocated ]_vars

\* the bytes of page page_id in the file
FilePage(file, page_id) == Slice(file, page_id * PAGE_SIZE, page_id * PAGE_SIZE + PAGE_SIZE)

\* page h is resident and edited
ResidentEdited(h) ==
    /\ \E i \in 1..Len(pages) : pages[i] = h
    /\ heap[h].status.edited

\* C18: after flush_all returns successfully the bytes on disk of every
\* resident edited page equal its bytes in memory; flush_page(id) does the
\* same for the page id; neither changes the bytes on disk of a page that
\* is not resident or not edited, nor the size of the file.
C18_FlushWritesEdited ==
    [][ /\ (ret'.op = "flush_all" /\ bpm = "open")
            => /\ ret'.res = "ok"
                    => \A h \in 1..Len(heap) :
                          ResidentEdited(h)
                              => read_page(db', heap[h].page_id)
                                   = [res |-> "ok", data |-> heap[h].data]
               /\ \A page_id \in PoolPageIds :
                      (~ \E h \in 1..Len(heap) :
                            ResidentEdited(h) /\ heap[h].page_id = page_id)
                          => FilePage(db', page_id) = FilePage(db, page_id)
        /\ (ret'.op = "flush_page" /\ bpm = "open")
            => /\ ret'.res = "ok"
                    => \A h \in 1..Len(heap) :
                          (ResidentEdited(h) /\ heap[h].page_id = ret'.rid[1])
                              => read_page(db', heap[h].page_id)
                                   = [res |-> "ok", data |-> heap[h].data]
               /\ \A page_id \in PoolPageIds :
                      (~ \E h \in 1..Len(heap) :
                            /\ ResidentEdited(h)
                            /\ heap[h].page_id = page_id
                            /\ page_id = ret'.rid[1])
                          => FilePage(db', page_id) = FilePage(db, page_id) ]_vars

\* flush_all has written two resident edited pages, one of them holding a
\* tuple, and both are on disk as they are in memory
C18_Witness ==
    /\ ret.op = "flush_all" /\ ret.res = "ok"
    /\ Len(pages) = 2
    /\ \A i \in 1..2 :
           /\ heap[pages[i]].status.edited
           /\ read_page(db, heap[pages[i]].page_id).data = heap[pages[i]].data
    /\ \E i \in 1..2 : get_tuple_count(heap[pages[i]]) > 0

\* the page data with the byte at OFFSET_DELETED cleared
WithoutDeleted(d) == Overwrite(d, OFFSET_DELETED, Zeros(1))

\* C19: after BufferPoolManager::delete_page(id) returns true the resident
\* page for id has the deleted flag set in its bytes at offset 4 and is
\* marked edited, and no other byte of the page differs from what the page
\* held before (in the replacer, or on disk when it was not resident).
C19_PoolDeleteSetsFlag ==
    [][ (ret'.op = "delete_page" /\ ret'.res = "true" /\ bpm = "open")
          => LET page_id == ret'.rid[1]
                 p == heap'[ret'.h]
             IN  /\ poll(pages', heap', page_id) = ret'.h
                 /\ At(p.data, OFFSET_DELETED) # 0
                 /\ p.status.edited
                 /\ ret'.hit
                      => WithoutDeleted(p.data) = WithoutDeleted(heap[ret'.h].data)
                 /\ ~ ret'.hit
                      => WithoutDeleted(p.data)
                           = WithoutDeleted(read_page(db', page_id).data) ]_vars

\* slot i of page p is in use: its size field is not 0
InUse(p, i) == get_tuple_size(p, i) # 0

\* slot i of page p holds a live tuple: in use and not tombstoned
LiveSlot(p, i) == ~ is_deleted(get_tuple_size(p, i))

\* the byte range of slot i of page p: [SlotStart, SlotEnd)
SlotStart(p, i) == get_tuple_offset_at_slot(p, i)

SlotEnd(p, i) ==
    get_tuple_offset_at_slot(p, i) + unset_deleted_flag(get_tuple_size(p, i))

SlotsOf(p) == 0..(get_tuple_count(p) - 1)

\* the layout of page p: the slot array ends at or before free_space_ptr,
\* free_space_ptr is within the page, and the bytes of every live slot lie
\* between free_space_ptr and the end of the page
Layout(p) ==
    LET fsp == get_free_space_pointer(p)
    IN  /\ ~ HighBit(fsp)
        /\ SIZE_TABLE_PAGE_HEADER + SIZE_TUPLE * get_tuple_count(p) <= fsp
        /\ fsp <= PAGE_SIZE
        /\ \A i \in SlotsOf(p) :
               LiveSlot(p, i) =>
                  /\ ~ HighBit(SlotStart(p, i))
                  /\ fsp <= SlotStart(p, i)
                  /\ SlotEnd(p, i) <= PAGE_SIZE

\* C26: in every state reached from a new table page by insert_tuple,
\* update_tuple, mark_delete, rollback_delete and apply_delete,
\* SIZE_HEADER + SLOT_SIZE * tuple_count <= free_space_ptr <= PAGE_SIZE and
\* every live slot has free_space_ptr <= offset and offset + size <=
\* PAGE_SIZE.
C26_Layout == Layout(tp)

\* the same in the states where no operation has panicked
C26_LayoutUnlessHalted == ~ halted => Layout(tp)

\* C27: in every such state the byte ranges [offset, offset + size) of any
\* two distinct live slots are disjoint.
C27_Disjoint ==
    \A i, j \in SlotsOf(tp) :
       (i # j /\ LiveSlot(tp, i) /\ LiveSlot(tp, j)) =>
          \/ SlotEnd(tp, i) <= SlotStart(tp, j)
          \/ SlotEnd(tp, j) <= SlotStart(tp, i)

\* an update has just grown a tuple on a page with two live tuples
C27_Witness ==
    /\ ret.op = "update_tuple" /\ ret.res = "ok"
    /\ ret.data.len = 3
    /\ get_tuple_count(tp) = 2
    /\ LiveSlot(tp, 0) /\ LiveSlot(tp, 1)
    /\ get_free_space_pointer(tp) = PAGE_SIZE - 4

\* C28: apply_delete(rid) of a tombstoned tuple leaves get_tuple of every
\* other live RID returning the same bytes, adds the removed tuple's size
\* to the offset of exactly the slots whose tuples lay below the removed
\* tuple's offset, and leaves every other slot's offset as it was.
C28_ApplyDeleteFrame ==
    [][ (ret'.op = "apply_delete" /\ ret'.res # "err") =>
          LET s == ret'.rid[2]
              size == unset_deleted_flag(get_tuple_size(tp, s))
              offset == get_tuple_offset_at_slot(tp, s)
          IN  /\ \A i \in SlotsOf(tp) \ {s} :
                     LiveSlot(tp, i) =>
                        /\ Live(tp', Own(i))
                        /\ get_tuple(tp', Own(i)).tuple.data
                              = get_tuple(tp, Own(i)).tuple.data
              /\ \A i \in SlotsOf(tp) \ {s} :
                     InUse(tp, i) =>
                        get_tuple_offset_at_slot(tp', i)
                          = IF get_tuple_offset_at_slot(tp, i) < offset
                            THEN get_tuple_offset_at_slot(tp, i) + size
                            ELSE get_tuple_offset_at_slot(tp, i) ]_vars

\* C30: on a page with a free slot (size 0), insert_tuple of a tuple of
\* length L > 0 returns true iff the free space remaining is at least L
\* (the SLOT_SIZE bytes are only needed by an insert that creates a slot),
\* and then it takes the lowest-indexed free slot and leaves tuple_count as
\* it was.
C30_ReusesFreeSlot ==
    [][ (/\ ret'.op = "insert_tuple"
         /\ ret'.data.len > 0
         /\ get_free_slot_array(tp) # None
         /\ Layout(tp))
          => /\ ret'.res = "true" <=> FreeBytes(tp) >= ret'.data.len
             /\ ret'.res = "true" =>
                   /\ ret'.rid = Own(get_free_slot_array(tp))
                   /\ get_tuple_count(tp') = get_tuple_count(tp) ]_vars

\* C37: get_tuple, get_first_tuple_rid, get_next_tuple_rid, get_lsn,
\* get_table_page_id, get_prev_page_id and get_next_page_id leave the bytes
\* of the page and its edited flag as they were; of the status they change
\* at most used, which they set.
C37_ReadOnly ==
    [][ (ret'.op \in FieldOps \cup {"get_tuple", "get_first_tuple_rid",
                                     "get_next_tuple_rid"})
          => /\ tp'.data = tp.data
             /\ tp'.status.edited = tp.status.edited
             /\ \/ tp'.status = tp.status
                \/ tp'.status = [tp.status EXCEPT !.used = TRUE] ]_vars

---------------------------------------------------------------------------
(* Properties of the raw page helpers *)

\* the count a call with offset <= PAGE_SIZE is to transfer
RawCount(c) == Min(Min(c.len, c.buf.len), PAGE_SIZE - c.offset)

\* C21: read_data and write_data with offset <= PAGE_SIZE never fail or
\* abort: they transfer min(len, caller buffer length, PAGE_SIZE - offset)
\* bytes between the page and the front of the caller's buffer and return
\* that count, also when it is smaller than the caller's buffer.  With
\* offset > PAGE_SIZE they return a value error and change nothing.
C21_RawTransfer ==
    [][ ret'.op \in {"read_data", "write_data"} =>
          LET c == ret'
              k == RawCount(c)
          IN  IF c.offset > PAGE_SIZE
              THEN c.res = "err" /\ tp' = tp /\ c.out = c.buf
              ELSE /\ c.res = "ok"
                   /\ c.n = k
                   /\ c.op = "read_data" =>
                         /\ tp' = tp
                         /\ Slice(c.out, 0, k) = Slice(tp.data, c.offset, c.offset + k)
                         /\ Slice(c.out, k, c.buf.len) = Slice(c.buf, k, c.buf.len)
                   /\ c.op = "write_data" =>
                         tp'.data = Overwrite(tp.data, c.offset, Slice(c.buf, 0, k))
      ]_vars

---------------------------------------------------------------------------
(* Properties of the header page *)

\* the name and the root_id stored in record i (from 0) of the page data d
EntryName(d, i) ==
    trim_end_matches_nul(Slice(d, 4 + i * RECORD_SIZE, 4 + i * RECORD_SIZE + NAME_SIZE))

EntryRootId(d, i) == ReadU32(d, 4 + i * RECORD_SIZE + NAME_SIZE)

\* the records of d in order, each as <<name, root_id>>
Entries(d) ==
    [k \in 1..get_record_count(d) |-> <<EntryName(d, k - 1), EntryRootId(d, k - 1)>>]

\* seq without its k-th element
RemoveAt(seq, k) ==
    [i \in 1..(Len(seq) - 1) |-> IF i < k THEN seq[i] ELSE seq[i + 1]]

\* C14: an insert_record(n, r) that returns true is followed by
\* get_root_id(n) = Some(r), and a delete_record(n) that returns true is
\* followed by get_root_id(n) = None, in every state reachable by
\* insert_record, delete_record and update_record.
C14_InsertDeleteThenGet ==
    [][ /\ (ret'.op = "insert_record" /\ ret'.res = "true")
            => get_root_id(header_page', ret'.name)
                 = [res |-> "some", root_id |-> ret'.root_id]
        /\ (ret'.op = "delete_record" /\ ret'.res = "true")
            => get_root_id(header_page', ret'.name).res = "none" ]_vars

\* C15: update_record(n, r) on an existing name returns true, afterwards
\* get_root_id(n) = Some(r), and every name, every other root_id and
\* record_count are unchanged; on a missing name it returns false and
\* changes nothing.
C15_UpdateRecord ==
    [][ (ret'.op = "update_record")
          => LET before == Entries(header_page)
                 after  == Entries(header_page')
                 n      == ret'.name
             IN  IF \E k \in 1..Len(before) : before[k][1] = n
                 THEN /\ ret'.res = "true"
                      /\ get_root_id(header_page', n)
                           = [res |-> "some", root_id |-> ret'.root_id]
                      /\ Len(after) = Len(before)
                      /\ \A k \in 1..Len(before) :
                             /\ after[k][1] = before[k][1]
                             /\ before[k][1] # n => after[k][2] = before[k][2]
                 ELSE /\ ret'.res = "false"
                      /\ header_page' = header_page ]_vars

\* C16: delete_record(n) returns true iff a record named n exists; on true
\* record_count decreases by 1 and the remaining records keep their name,
\* root_id and order, packed; on false the header page is unchanged.
C16_DeleteRecord ==
    [][ (ret'.op = "delete_record")
          => LET before == Entries(header_page)
                 after  == Entries(header_page')
                 n      == ret'.name
             IN  IF \E k \in 1..Len(before) : before[k][1] = n
                 THEN /\ ret'.res = "true"
                      /\ \E k \in 1..Len(before) :
                             before[k][1] = n /\ after = RemoveAt(before, k)
                 ELSE /\ ret'.res = "false"
                      /\ header_page' = header_page ]_vars

\* C20: page_is_deleted is false on a table page on which delete_page has
\* not been called; delete_page returns true, sets the byte at offset 4,
\* marks the page edited and leaves page_is_deleted true, also when it is
\* called again.
C20_DeletePageFlag ==
    [][ /\ (ret'.op = "page_is_deleted" /\ At(tp.data, OFFSET_DELETED) = 0)
            => ret'.res = "false"
        /\ (ret'.op = "delete_page")
            => /\ ret'.res = "true"
               /\ At(tp'.data, OFFSET_DELETED) = 1
               /\ tp'.status.edited
               /\ page_is_deleted(tp').res = "true" ]_vars

\* the names of the records of d, in order
EntryNames(d) == [k \in 1..get_record_count(d) |-> EntryName(d, k - 1)]

\* C29: after any sequence of insert_record, delete_record and
\* update_record no two of the first record_count entries carry the same
\* name (trailing 0x00 stripped), and an insert_record of a name longer than
\* 32 bytes or of a name already present returns false and leaves the page
\* unchanged.
C29_UniqueNames ==
    [][ /\ \A i, j \in DOMAIN EntryNames(header_page') :
               i # j => EntryNames(header_page')[i] # EntryNames(header_page')[j]
        /\ (/\ ret'.op = "insert_record"
            /\ \/ ret'.name.len > NAME_SIZE
               \/ \E i \in DOMAIN EntryNames(header_page) :
                     EntryNames(header_page)[i] = ret'.name)
              => (ret'.res = "false" /\ header_page' = header_page) ]_vars

\* C39: the header page that open makes of the bytes of page 0 has the
\* catalog those bytes hold: its record_count is the one in the bytes and
\* get_root_id of every name yields what it yields on the bytes.
C39_OpenKeepsCatalog ==
    [][ (ret'.op = "open" /\ ret'.res = "ok")
          => LET stored == read_page(db, 0).data
             IN  /\ get_record_count(header_page') = get_record_count(stored)
                 /\ \A name \in CatalogNames :
                        get_root_id(header_page', name) = get_root_id(stored, name) ]_vars

---------------------------------------------------------------------------
(* Properties of the disk manager *)

\* C3: after write_page(id, b) with b of exactly PAGE_SIZE bytes succeeds,
\* read_page(id) succeeds and yields exactly b, the pages that could be read
\* before at other ids read the same as before, and a write_page with a
\* buffer of any other length fails without changing the file.
C3_WriteThenRead ==
    [][ (ret'.op = "write_page")
          => LET id == ret'.rid[1]
             IN  /\ ret'.data.len # PAGE_SIZE => (ret'.res = "err" /\ db' = db)
                 /\ ret'.res = "ok"
                      => /\ read_page(db', id) = [res |-> "ok", data |-> ret'.data]
                         /\ \A j \in (PageIds \cup {WrapPageId}) \ {id} :
                                read_page(db, j).res = "ok"
                                    => read_page(db', j) = read_page(db, j) ]_vars

\* C34: write_page, read_page and have_page address page id at the same
\* offset id * PAGE_SIZE, whatever the 32-bit id: a write_page of PAGE_SIZE
\* bytes whose I/O succeeds returns Ok (the offset is computed without
\* overflow), the page is then in the file at its id with the bytes
\* written, every other page that was readable reads as before, and
\* read_page(id) finds the page exactly when (id + 1) * PAGE_SIZE is at
\* most the file size.
C34_SameOffset ==
    [][ LET id == ret'.rid[1]
        IN  /\ ( /\ ret'.op = "write_page"
                 /\ ret'.data.len = PAGE_SIZE
                 /\ ret'.res # "ioerr" )
                => /\ ret'.res = "ok"
                   /\ have_page(db', id)
                   /\ read_page(db', id).data = ret'.data
                   /\ \A j \in (PageIds \cup {WrapPageId}) \ {id} :
                          have_page(db, j)
                              => read_page(db', j) = read_page(db, j)
            /\ ret'.op = "read_page"
                => (ret'.res = "ok" <=> id + 1 <= db.len \div PAGE_SIZE) ]_vars

---------------------------------------------------------------------------
(* Properties of the clock replacer *)

\* the priority of a status for eviction: 0 for HIGH (not used, not edited),
\* 1 for NORMAL (used, not edited), 2 for MEDIUM (not used, edited), 3 for
\* the rest
Rank(clock_status) ==
    IF ~ clock_status.used /\ ~ clock_status.edited THEN 0
    ELSE IF clock_status.used /\ ~ clock_status.edited THEN 1
    ELSE IF ~ clock_status.used /\ clock_status.edited THEN 2
    ELSE 3

\* C17: a push on a full replacer evicts a page of the highest-priority
\* level that is not empty at that moment (HIGH, then NORMAL, then MEDIUM):
\* no resident page has a higher priority than the evicted one, and the new
\* page takes the evicted page's position.
C17_EvictsByLevel ==
    [][ (ret'.op = "push" /\ Len(pages) >= capacity)
          => /\ ret'.res = "some"
             /\ ret'.slot \in 1..Len(pages)
             /\ ret'.victim = pages[ret'.slot]
             /\ \A i \in 1..Len(pages) :
                    Rank(heap[ret'.victim].status) <= Rank(heap[pages[i]].status)
             /\ pages' = [pages EXCEPT ![ret'.slot] = Len(heap) + 1]
             /\ heap'[Len(heap) + 1].page_id = ret'.rid[1] ]_vars

\* a push has evicted the HIGH page in position 2 and left the NORMAL page
\* in position 1
C17_Witness ==
    /\ ret.op = "push" /\ ret.res = "some"
    /\ ret.slot = 2
    /\ Rank(heap[ret.victim].status) = 0
    /\ Rank(heap[pages[1]].status) = 1
    /\ pages[2] = Len(heap)

\* C32: the replacer never holds more pages than its capacity: a push onto
\* a replacer with fewer pages than its capacity appends the page and
\* returns none, a push onto a full replacer returns one of its pages and
\* puts the new page in its place, the others staying where they are, and
\* ClockReplacer::new(0) fails and builds nothing.
C32_WithinCapacity ==
    /\ [](Len(pages) <= capacity)
    /\ [][ /\ (ret'.op = "push" /\ Len(pages) < capacity)
               => /\ ret'.res = "none"
                  /\ pages' = Append(pages, Len(heap) + 1)
           /\ (ret'.op = "push" /\ Len(pages) >= capacity)
               => /\ ret'.res = "some"
                  /\ ret'.slot \in 1..Len(pages)
                  /\ ret'.victim = pages[ret'.slot]
                  /\ pages' = [pages EXCEPT ![ret'.slot] = Len(heap) + 1]
                  /\ \A i \in 1..Len(pages') : pages'[i] # ret'.victim
           /\ (ret'.op = "new" /\ ret'.rid = <<0>>)
               => /\ ret'.res = "err"
                  /\ UNCHANGED <<capacity, clock_hand, pages, heap>> ]_vars

\* a replacer of capacity 2 is full after a push that returned a page, and
\* a ClockReplacer::new(0) was refused
C32_Witness ==
    /\ capacity = 2 /\ Len(pages) = 2
    /\ Len(heap) = 3
    /\ ret.op = "new" /\ ret.rid = <<0>> /\ ret.res = "err"

\* every page of pgs is LOW (used and edited)
AllLow(pgs, hp) ==
    \A i \in 1..Len(pgs) : ExpelLevel_from(hp[pgs[i]].status) = "LOW"

\* C33: a push onto a full replacer ends after at most four sweeps, with a
\* victim or with an error.  If some resident page is not LOW it takes no
\* sweep and changes no status; if every resident page is LOW it takes one
\* sweep, which clears the used flag of every resident page, and the retry
\* yields a victim.  The error is returned only after four sweeps that left
\* no page to evict.
C33_BoundedSweeps ==
    [][ (ret'.op = "push" /\ Len(pages) >= capacity)
          => /\ ret'.res \in {"some", "err"}
             /\ ret'.sweeps \in 0..4
             /\ ~ AllLow(pages, heap)
                  => /\ ret'.res = "some" /\ ret'.sweeps = 0
                     /\ \A h \in 1..Len(heap) : heap'[h] = heap[h]
             /\ AllLow(pages, heap)
                  => /\ ret'.res = "some" /\ ret'.sweeps = 1
                     /\ \A i \in 1..Len(pages) :
                            heap'[pages[i]] = UnUsed(heap[pages[i]])
             /\ ret'.res = "err"
                  => /\ ret'.sweeps = 4
                     /\ pages' = pages
                     /\ \A i \in 1..Len(pages) :
                            ExpelLevel_from(heap'[pages[i]].status) = "LOW" ]_vars

\* a push onto a replacer of two LOW pages took one sweep and returned the
\* first of them, leaving the other one MEDIUM
C33_Witness ==
    /\ ret.op = "push" /\ ret.res = "some" /\ ret.sweeps = 1
    /\ capacity = 2 /\ ret.slot = 1
    /\ heap[ret.victim].status = [ClockStatus_empty EXCEPT !.edited = TRUE]
    /\ heap[pages[2]].status = [ClockStatus_empty EXCEPT !.edited = TRUE]

---------------------------------------------------------------------------
(* Properties of the buffer pool *)

\* the table page whose bytes are what read_page yields for page_id
OnDisk(page_id) ==
    [page_id |-> page_id, data |-> read_page(db, page_id).data,
     status |-> ClockStatus_empty]

\* C1: when a page that was written to disk with tuples inserted in it is
\* fetched and the fetch misses the cache, the page returned has the
\* tuple_count and free_space_ptr that are on disk and get_tuple of every
\* RID on it yields the bytes that are on disk.
C1_FetchAfterWrite ==
    ( /\ pc = "idle"
      /\ ret.op = "fetch_page" /\ ret.res = "some" /\ ~ ret.hit
      /\ get_tuple_count(OnDisk(ret.rid[1])) > 0 )
    => LET page_id == ret.rid[1]
           d == OnDisk(page_id)
           p == heap[ret.h]
       IN  /\ get_tuple_count(p) = get_tuple_count(d)
           /\ get_free_space_pointer(p) = get_free_space_pointer(d)
           /\ \A s \in 0..(get_tuple_count(d) - 1) :
                  /\ get_tuple(p, <<page_id, s>>).res = "some"
                  /\ get_tuple(p, <<page_id, s>>).tuple.data
                        = get_tuple(d, <<page_id, s>>).tuple.data

\* C2: in no state is the page just pushed resident in the slot of the
\* edited page it evicted while the evicted page's bytes are not on disk at
\* its page id, whether the write of them is still to come or has failed.
C2_WriteBackBeforeReuse ==
    ( /\ evict # <<>>
      /\ heap[evict[1].victim].status.edited
      /\ pages[evict[1].slot] # evict[1].victim )
    => LET page == heap[evict[1].victim]
       IN  read_page(db, page.page_id) = [res |-> "ok", data |-> page.data]

\* C4: fetch_page of a page id beyond the end of the file returns none and
\* no error, and leaves the replacer and the file unchanged.
C4_FetchBeyondEof ==
    [][ ( /\ ret'.op = "fetch_page"
          /\ bpm = "open" /\ pc = "idle"
          /\ ~ have_page(db, ret'.rid[1]) )
          => /\ ret'.res = "none"
             /\ db' = db
             /\ pages' = pages
             /\ heap' = heap ]_vars

\* C5: open with a capacity above zero on an empty toydb.db succeeds and
\* yields a pool with an empty replacer and a header page whose
\* record_count is 0.
C5_OpenEmptyFile ==
    [][ ( /\ ret'.op = "open"
          /\ bpm = "closed"
          /\ ret'.rid[1] > 0
          /\ db.len = 0 )
          => /\ ret'.res = "ok"
             /\ bpm' = "open"
             /\ pages' = <<>>
             /\ get_record_count(header_page') = 0 ]_vars

\* C6: create_page(id) returns none when the file contains page id, and
\* otherwise returns a handle to a resident, empty table page with that id
\* (tuple_count 0, free_space_ptr = PAGE_SIZE); it does not fail because
\* the page lies beyond the end of the file.
C6_CreatePage ==
    [][ ( /\ ret'.op = "create_page"
          /\ bpm = "open" /\ pc = "idle" )
          => LET page_id == ret'.rid[1]
             IN  IF have_page(db, page_id)
                 THEN ret'.res = "none"
                 ELSE /\ ret'.res = "some"
                      /\ poll(pages', heap', page_id) = ret'.h
                      /\ heap'[ret'.h].page_id = page_id
                      /\ get_tuple_count(heap'[ret'.h]) = 0
                      /\ get_free_space_pointer(heap'[ret'.h]) = PAGE_SIZE ]_vars

\* the table page that fetch_page makes of the bytes on disk on a miss
Fetched(page_id) ==
    TablePage_new(page_id, IF page_id > 1 THEN page_id - 1 ELSE None,
                  read_page(db, page_id).data).page

\* C31: with cache capacity 2, pages 1 and 2 resident, page 1 mutated (a
\* tuple inserted in it) and page 2 as it was brought in, a fetch_page or
\* create_page that brings page 3 into the pool evicts page 2 and leaves
\* page 1 resident.
C31_EvictsUnmodified ==
    [][ LET h1 == poll(pages, heap, 1)
            h2 == poll(pages, heap, 2)
        IN  ( /\ bpm = "open" /\ pc = "idle"
              /\ capacity = 2 /\ Len(pages) = 2
              /\ h1 # 0 /\ h2 # 0
              /\ get_tuple_count(heap[h1]) > 0
              /\ heap[h2].data = Fetched(2).data
              /\ ret'.rid = <<3>>
              /\ pages' # pages )
              => /\ evict' # <<>>
                 /\ evict'[1].victim = h2
                 /\ poll(pages', heap', 1) = h1 ]_vars

\* C35: after a flush_all that returns Ok, every page the caller holds a
\* handle to (from fetch_page or create_page) and has inserted a tuple in
\* through that handle is on disk at its page id with the bytes it has in
\* memory, whether or not the page was evicted from the replacer before the
\* insert.
C35_NoLostUpdate ==
    [][ (ret'.op = "flush_all" /\ ret'.res = "ok" /\ bpm = "open")
          => \A h \in held :
                 get_tuple_count(heap[h]) > 0
                     => read_page(db', heap[h].page_id)
                          = [res |-> "ok", data |-> heap[h].data] ]_vars

\* C36: the page that fetch_page or create_page builds with TablePage::new
\* on a miss has used = true and edited = false (level NORMAL), whatever
\* its page id >= 1 and its prev_page_id; page id 0 is refused with an
\* error; and an eviction writes no page in which the caller has inserted
\* nothing.
C36_NewPageIsNormal ==
    [][ /\ ( /\ ret'.op \in {"fetch_page", "create_page"}
             /\ ret'.res = "some" /\ ~ ret'.hit )
            => /\ heap'[ret'.h].status = [ClockStatus_empty EXCEPT !.used = TRUE]
               /\ ExpelLevel_from(heap'[ret'.h].status) = "NORMAL"
        /\ ( /\ ret'.op \in {"fetch_page", "create_page"}
             /\ bpm = "open" /\ pc = "idle"
             /\ ret'.rid = <<0>> )
            => ret'.res \in {"err", "none"}
        /\ (pc = "idle" /\ pc' = "writeback")
            => get_tuple_count(heap'[evict'[1].victim]) > 0 ]_vars

\* the positions of pages that hold a page with this id that is not removed
ResidentAt(page_id) ==
    {i \in 1..Len(pages) :
        heap[pages[i]].page_id = page_id /\ ~ heap[pages[i]].status.removed}

\* C38: in every state the pool reaches by fetch_page, create_page,
\* delete_page, flush_page and flush_all the replacer holds at most one page
\* that is not removed per page id, and fetch_page of a resident id returns
\* the handle of that page and leaves the replacer, the pages and the file
\* as they are.
C38_OneResidentPerId ==
    /\ [](\A page_id \in PoolPageIds : Cardinality(ResidentAt(page_id)) <= 1)
    /\ [][ ( /\ ret'.op = "fetch_page"
             /\ bpm = "open" /\ pc = "idle"
             /\ ResidentAt(ret'.rid[1]) # {} )
            => /\ ret'.res = "some" /\ ret'.hit
               /\ \A i \in ResidentAt(ret'.rid[1]) : ret'.h = pages[i]
               /\ UNCHANGED <<pages, heap, clock_hand, db>> ]_vars

\* with two pages resident, a fetch_page of the one the caller has inserted
\* a tuple in has returned its handle
C38_Witness ==
    /\ ret.op = "fetch_page" /\ ret.res = "some" /\ ret.hit
    /\ Len(pages) = 2
    /\ heap[pages[1]].page_id # heap[pages[2]].page_id
    /\ get_tuple_count(heap[ret.h]) > 0

=============================================================================
